---- MODULE Spec2Model ----
(***************************************************************************)
(* Layout and routing engine of the IEC 61499 network-to-SVG converter     *)
(* (src/iec61499_network_to_svg.py): block sizing, scale resolution,       *)
(* position and port mapping, sidebar placement, header/border derivation  *)
(* and connection routing.                                                 *)
(*                                                                         *)
(* Numbers.  The program computes pixel values and the scale in Python     *)
(* floats.  The model computes them in exact rational arithmetic: a value  *)
(* is a pair <<numerator, denominator>> in lowest terms with a positive    *)
(* denominator, so equal values are equal pairs.  Design coordinates and   *)
(* routing hints are integers.                                             *)
(*                                                                         *)
(* Text.  A Python str is a sequence of one-character strings.  Text width *)
(* is the deterministic estimate the program uses when no font is loaded   *)
(* (8.5 pixels per character).                                             *)
(***************************************************************************)
EXTENDS Integers, Sequences, FiniteSets, TLC

VARIABLES
    engine,   \* the NetworkLayoutEngine: SCALE, _auto_scale_needed, settings
    model,    \* the NetworkModel with its computed layout fields
    svg,      \* what NetworkSVGRenderer.render derived: view box and routes
    pc,       \* position of the conversion job: "parsed", "laid_out", "rendered"
    job,      \* what the job was called with: scale, settings, the parsed network
    label     \* a label under truncation: text, max_len, step, out, again

vars == <<engine, model, svg, pc, job, label>>

(***************************************************************************)
(* Exact rational arithmetic standing for the program's float arithmetic.  *)
(***************************************************************************)
RECURSIVE GCD(_, _)
GCD(a, b) == IF b = 0 THEN a ELSE GCD(b, a % b)

Abs(n) == IF n < 0 THEN -n ELSE n

Rat(n, d) ==
    LET s == IF d < 0 THEN -1 ELSE 1
        g == GCD(Abs(n), Abs(d))
    IN  <<(s * n) \div g, (s * d) \div g>>

Q(n) == <<n, 1>>
QAdd(a, b) == Rat(a[1] * b[2] + b[1] * a[2], a[2] * b[2])
QSub(a, b) == Rat(a[1] * b[2] - b[1] * a[2], a[2] * b[2])
QMul(a, b) == Rat(a[1] * b[1], a[2] * b[2])
QDiv(a, b) == Rat(a[1] * b[2], a[2] * b[1])
QLt(a, b) == a[1] * b[2] < b[1] * a[2]
QLe(a, b) == a[1] * b[2] <= b[1] * a[2]
QMax(a, b) == IF QLt(a, b) THEN b ELSE a
QMin(a, b) == IF QLt(b, a) THEN b ELSE a
QAbs(a) == <<Abs(a[1]), a[2]>>
QMaxSet(S) == CHOOSE m \in S : \A s \in S : QLe(s, m)
QMinSet(S) == CHOOSE m \in S : \A s \in S : QLe(m, s)
IMax(a, b) == IF a < b THEN b ELSE a

\* None, for the Optional fields of the data model
None == <<>>

(***************************************************************************)
(* Text                                                                    *)
(***************************************************************************)
\* the one-character string U+2026 that marks a truncated label
Ellipsis == "U+2026"

\* _truncate_label(text, max_len)
TruncateAlways(text, max_len) ==
    IF Len(text) <= max_len
    THEN text
    ELSE SubSeq(text, 1, max_len) \o <<Ellipsis>>

_truncate_label(text, max_len) ==
    IF max_len <= 0 \/ Len(text) <= max_len
    THEN text
    ELSE SubSeq(text, 1, max_len) \o <<Ellipsis>>

\* NetworkLayoutEngine._measure_text without a loaded font: len(text) * 8.5
_measure_text(text) == Rat(17 * Len(text), 2)

\* "W" * n
Ws(n) == [i \in 1..n |-> "W"]

\* str.split(sep) for a one-character separator
RECURSIVE Split(_, _)
Split(s, sep) ==
    IF \A i \in 1..Len(s) : s[i] # sep
    THEN <<s>>
    ELSE LET k == CHOOSE i \in 1..Len(s) :
                      s[i] = sep /\ \A j \in 1..(i - 1) : s[j] # sep
         IN  <<SubSeq(s, 1, k - 1)>> \o Split(SubSeq(s, k + 1, Len(s)), sep)

\* type_name.split("::")[-1] if "::" in type_name else type_name
RECURSIVE ShortType(_)
ShortType(t) ==
    IF \A i \in 1..(Len(t) - 1) : ~(t[i] = ":" /\ t[i + 1] = ":")
    THEN t
    ELSE LET k == CHOOSE i \in 1..(Len(t) - 1) :
                      /\ t[i] = ":" /\ t[i + 1] = ":"
                      /\ \A j \in 1..(i - 1) : ~(t[j] = ":" /\ t[j + 1] = ":")
         IN  ShortType(SubSeq(t, k + 2, Len(t)))

(***************************************************************************)
(* Block size settings and layout constants                                *)
(***************************************************************************)
max_type_label_size_default == 15
max_pin_label_size_default == 12
min_pin_label_size_default == 0
min_interface_bar_size_default == 0
max_interface_bar_size_default == 40

\* BlockSizeSettings()
BlockSizeSettings ==
    [max_type_label_size |-> max_type_label_size_default,
     min_pin_label_size |-> min_pin_label_size_default,
     max_pin_label_size |-> max_pin_label_size_default,
     min_interface_bar_size |-> min_interface_bar_size_default,
     max_interface_bar_size |-> max_interface_bar_size_default]

PORT_ROW_HEIGHT == 16
NAME_SECTION_HEIGHT == 16
TRIANGLE_WIDTH == 5
MARGIN == 60
\* SCALE = 0.16
DEFAULT_SCALE == Rat(16, 100)
MIN_BLOCK_WIDTH == 80
\* gap = 60 in _auto_scale
gap == 60

(***************************************************************************)
(* Data model                                                              *)
(***************************************************************************)
\* FBInstance(name, type_name, x, y, <six port-name lists>): the computed
\* layout fields start at their dataclass defaults
FBInstance(name, type_name, x, y, ei, eo, di, do, plugs, sockets) ==
    [name |-> name, type_name |-> type_name, x |-> x, y |-> y,
     event_inputs |-> ei, event_outputs |-> eo,
     data_inputs |-> di, data_outputs |-> do,
     plugs |-> plugs, sockets |-> sockets,
     block_width |-> Q(0), block_height |-> Q(0),
     render_x |-> Q(0), render_y |-> Q(0),
     event_section_height |-> Q(0), data_section_height |-> Q(0),
     name_section_top |-> Q(0), name_section_bottom |-> Q(0),
     adapter_section_top |-> Q(0), adapter_section_height |-> Q(0),
     port_positions |-> <<>>]

\* Connection(source, destination, dx1, dx2, dy)
Connection(source, destination, dx1, dx2, dy) ==
    [source |-> source, destination |-> destination,
     dx1 |-> dx1, dx2 |-> dx2, dy |-> dy]

\* InterfacePort(name, direction)
InterfacePort(name, direction) ==
    [name |-> name, direction |-> direction,
     render_x |-> Q(0), render_y |-> Q(0)]

\* NetworkModel(instances, connections, interface_ports)
NetworkModel(instances, connections, interface_ports) ==
    [instances |-> instances, connections |-> connections,
     interface_ports |-> interface_ports,
     input_sidebar_width |-> Q(0), output_sidebar_width |-> Q(0),
     input_sidebar_rect |-> None, output_sidebar_rect |-> None,
     header_rect |-> None, outer_border_rect |-> None,
     canvas_origin_x |-> Q(0), canvas_origin_y |-> Q(0)]

\* an engine that ignores the caller's scale and always resolves its own
NewEngineAlwaysAuto(scale, settings) ==
    [auto_scale_needed |-> TRUE, SCALE |-> DEFAULT_SCALE, settings |-> settings]

\* NetworkLayoutEngine.__init__(scale, settings); scale = None asks for auto scale
NewEngine(scale, settings) ==
    [auto_scale_needed |-> (scale = None),
     SCALE |-> IF scale # None THEN scale ELSE DEFAULT_SCALE,
     settings |-> settings]

\* {x.name: x for x in seq}: a later entry replaces an earlier one of the same name
RECURSIVE DictByName(_)
DictByName(seq) ==
    IF seq = <<>> THEN <<>>
    ELSE (seq[Len(seq)].name :> seq[Len(seq)])
             @@ DictByName(SubSeq(seq, 1, Len(seq) - 1))

\* sorted(seq, key=lambda i: i[f]): stable
RECURSIVE SortBy(_, _)
SortBy(seq, f) ==
    IF seq = <<>> THEN <<>>
    ELSE LET rest == SortBy(SubSeq(seq, 1, Len(seq) - 1), f)
             e == seq[Len(seq)]
             k == Cardinality({i \in 1..Len(rest) : rest[i][f] <= e[f]})
         IN  SubSeq(rest, 1, k) \o <<e>> \o SubSeq(rest, k + 1, Len(rest))

ToSet(seq) == {seq[i] : i \in 1..Len(seq)}

(***************************************************************************)
(* Sizing                                                                  *)
(***************************************************************************)
\* a pad of half a row
SectionPaddingHalfRow == QDiv(Q(PORT_ROW_HEIGHT), Q(2))

\* section_padding = PORT_ROW_HEIGHT / 2 - 4
section_padding == QSub(QDiv(Q(PORT_ROW_HEIGHT), Q(2)), Q(4))

\* rows reserved for the event or the data section
SectionRowsNoFloor(n_in, n_out) == IMax(n_in, n_out)

SectionRows(n_in, n_out) == IMax(IMax(n_in, n_out), 1)

\* rows reserved for the adapter section
AdapterRows(n_sockets, n_plugs) == IMax(n_sockets, n_plugs)

\* width of the name section for a type name
NameSectionWidth(type_name, settings) ==
    LET short_type == _truncate_label(ShortType(type_name),
                                      settings.max_type_label_size)
        type_width == _measure_text(short_type)
    IN  QAdd(Q(8 + 3 + 14 + 4), QAdd(type_width, Q(5 + 8)))

\* width a port needs: connector allowance + max(min_pin_w, measured label)
PortWidth(space, port, settings) ==
    LET min_pin_w == IF settings.min_pin_label_size > 0
                     THEN _measure_text(Ws(settings.min_pin_label_size))
                     ELSE Q(0)
    IN  QAdd(space, QMax(min_pin_w,
               _measure_text(_truncate_label(port, settings.max_pin_label_size))))

\* left-port width + min_center_gap + right-port width
PortsWidth(inst, settings) ==
    LET triangle_space == QAdd(Q(TRIANGLE_WIDTH + 3), Rat(3, 2))
        adapter_space == QAdd(Q(TRIANGLE_WIDTH * 2 + 3), Rat(3, 2))
        max_left == QMaxSet({Q(0)}
            \cup {PortWidth(triangle_space, p, settings) :
                      p \in ToSet(inst.event_inputs \o inst.data_inputs)}
            \cup {PortWidth(adapter_space, p, settings) : p \in ToSet(inst.sockets)})
        max_right == QMaxSet({Q(0)}
            \cup {PortWidth(triangle_space, p, settings) :
                      p \in ToSet(inst.event_outputs \o inst.data_outputs)}
            \cup {PortWidth(adapter_space, p, settings) : p \in ToSet(inst.plugs)})
    IN  QAdd(max_left, QAdd(Q(8), max_right))

BlockWidthPortsOnly(inst, settings) ==
    QMax(Q(MIN_BLOCK_WIDTH), PortsWidth(inst, settings))

BlockWidth(inst, settings) ==
    QMax(QMax(Q(MIN_BLOCK_WIDTH), NameSectionWidth(inst.type_name, settings)),
         PortsWidth(inst, settings))

\* NetworkLayoutEngine._size_instance
_size_instance(inst, settings) ==
    LET num_event_rows == SectionRows(Len(inst.event_inputs), Len(inst.event_outputs))
        num_data_rows == SectionRows(Len(inst.data_inputs), Len(inst.data_outputs))
        num_adapter_rows == AdapterRows(Len(inst.sockets), Len(inst.plugs))
        esh == QAdd(Q(num_event_rows * PORT_ROW_HEIGHT), section_padding)
        dsh == QAdd(Q(num_data_rows * PORT_ROW_HEIGHT), section_padding)
        ash == IF num_adapter_rows > 0
               THEN Q(num_adapter_rows * PORT_ROW_HEIGHT) ELSE Q(0)
        nsb == QAdd(esh, Q(NAME_SECTION_HEIGHT))
    IN  [inst EXCEPT
            !.event_section_height = esh,
            !.data_section_height = dsh,
            !.adapter_section_height = ash,
            !.block_height = QAdd(QAdd(esh, Q(NAME_SECTION_HEIGHT)), QAdd(dsh, ash)),
            !.block_width = BlockWidth(inst, settings),
            !.name_section_top = esh,
            !.name_section_bottom = nsb,
            !.adapter_section_top = QAdd(nsb, dsh)]

(***************************************************************************)
(* Scale resolution                                                        *)
(***************************************************************************)
\* lower bounds from the roughly stacked pairs of the list sorted by y
StackedBoundsNoGap(by_y) ==
    LET n == Len(by_y)
        P == {p \in (1..n) \X (1..n) :
                /\ p[1] < p[2]
                /\ by_y[p[2]].y - by_y[p[1]].y > 0
                /\ Abs(by_y[p[1]].x - by_y[p[2]].x)
                       < (by_y[p[2]].y - by_y[p[1]].y) * 3}
    IN  {QDiv(by_y[p[1]].block_height,
              Q(by_y[p[2]].y - by_y[p[1]].y)) : p \in P}

StackedBoundsLowerBlock(by_y) ==
    LET n == Len(by_y)
        P == {p \in (1..n) \X (1..n) :
                /\ p[1] < p[2]
                /\ by_y[p[2]].y - by_y[p[1]].y > 0
                /\ Abs(by_y[p[1]].x - by_y[p[2]].x)
                       < (by_y[p[2]].y - by_y[p[1]].y) * 3}
    IN  {QDiv(QAdd(by_y[p[2]].block_height, Q(gap)),
              Q(by_y[p[2]].y - by_y[p[1]].y)) : p \in P}

StackedBounds(by_y) ==
    LET n == Len(by_y)
        P == {p \in (1..n) \X (1..n) :
                /\ p[1] < p[2]
                /\ by_y[p[2]].y - by_y[p[1]].y > 0
                /\ Abs(by_y[p[1]].x - by_y[p[2]].x)
                       < (by_y[p[2]].y - by_y[p[1]].y) * 3}
    IN  {QDiv(QAdd(by_y[p[1]].block_height, Q(gap)),
              Q(by_y[p[2]].y - by_y[p[1]].y)) : p \in P}

\* no lower bound from the side-by-side pairs
AdjacentBoundsNone(by_x) == {}

\* lower bounds from the roughly side-by-side pairs of the list sorted by x
AdjacentBounds(by_x) ==
    LET n == Len(by_x)
        P == {p \in (1..n) \X (1..n) :
                /\ p[1] < p[2]
                /\ by_x[p[2]].x - by_x[p[1]].x > 0
                /\ Abs(by_x[p[1]].y - by_x[p[2]].y)
                       < (by_x[p[2]].x - by_x[p[1]].x) * 3}
    IN  {QDiv(QAdd(by_x[p[1]].block_width, Q(gap)),
              Q(by_x[p[2]].x - by_x[p[1]].x)) : p \in P}

\* a scale resolution that adds the pairwise bound to the current scale
AutoScaleSum(instances, SCALE) ==
    IF Len(instances) < 2 THEN SCALE
    ELSE QAdd(QMaxSet({Q(0)} \cup StackedBounds(SortBy(instances, "y"))
                           \cup AdjacentBounds(SortBy(instances, "x"))),
              SCALE)

AutoScaleNoFloor(instances, SCALE) ==
    IF Len(instances) < 2 THEN SCALE
    ELSE QMaxSet({Q(0)} \cup StackedBounds(SortBy(instances, "y"))
                        \cup AdjacentBounds(SortBy(instances, "x")))

\* NetworkLayoutEngine._auto_scale; SCALE is the engine's current self.SCALE
_auto_scale(instances, SCALE) ==
    IF Len(instances) < 2 THEN SCALE
    ELSE LET min_scale == QMaxSet({Q(0)}
                 \cup StackedBounds(SortBy(instances, "y"))
                 \cup AdjacentBounds(SortBy(instances, "x")))
         IN  QMax(min_scale, SCALE)

(***************************************************************************)
(* Position and port mapping                                               *)
(***************************************************************************)
\* render positions taken from the canvas origin instead of the bounds
PositionInstancesFromOrigin(eng, mdl) ==
    IF mdl.instances = <<>> THEN [engine |-> eng, model |-> mdl]
    ELSE LET insts == mdl.instances
             S == IF eng.auto_scale_needed
                  THEN _auto_scale(insts, eng.SCALE) ELSE eng.SCALE
         IN  [engine |-> [eng EXCEPT !.SCALE = S],
              model |-> [mdl EXCEPT
                 !.instances = [i \in 1..Len(insts) |->
                     [insts[i] EXCEPT
                        !.render_x = QAdd(QMul(Q(insts[i].x), S), Q(MARGIN)),
                        !.render_y = QAdd(QMul(Q(insts[i].y), S), Q(MARGIN))]],
                 !.canvas_origin_x = Q(MARGIN),
                 !.canvas_origin_y = Q(MARGIN)]]

\* NetworkLayoutEngine._position_instances: the engine and the model after it
_position_instances(eng, mdl) ==
    IF mdl.instances = <<>> THEN [engine |-> eng, model |-> mdl]
    ELSE LET insts == mdl.instances
             S == IF eng.auto_scale_needed
                  THEN _auto_scale(insts, eng.SCALE) ELSE eng.SCALE
             min_x == CHOOSE v \in {insts[i].x : i \in 1..Len(insts)} :
                          \A i \in 1..Len(insts) : v <= insts[i].x
             min_y == CHOOSE v \in {insts[i].y : i \in 1..Len(insts)} :
                          \A i \in 1..Len(insts) : v <= insts[i].y
         IN  [engine |-> [eng EXCEPT !.SCALE = S],
              model |-> [mdl EXCEPT
                 !.instances = [i \in 1..Len(insts) |->
                     [insts[i] EXCEPT
                        !.render_x = QAdd(QMul(Q(insts[i].x - min_x), S), Q(MARGIN)),
                        !.render_y = QAdd(QMul(Q(insts[i].y - min_y), S), Q(MARGIN))]],
                 !.canvas_origin_x = QSub(Q(MARGIN), QMul(Q(min_x), S)),
                 !.canvas_origin_y = QSub(Q(MARGIN), QMul(Q(min_y), S))]]

\* one "for port in ports" loop of _compute_port_positions
RECURSIVE AssignPorts(_, _, _, _)
AssignPorts(pp, ports, abs_x, abs_y) ==
    IF ports = <<>> THEN pp
    ELSE AssignPorts((Head(ports) :> <<abs_x, abs_y>>) @@ pp, Tail(ports),
                     abs_x, QAdd(abs_y, Q(PORT_ROW_HEIGHT)))

\* NetworkLayoutEngine._compute_port_positions
_compute_port_positions(inst) ==
    LET half == QDiv(Q(PORT_ROW_HEIGHT), Q(2))
        top_padding == QSub(half, Q(4))
        left == inst.render_x
        right == QAdd(inst.render_x, inst.block_width)
        ev_y == QAdd(inst.render_y, QAdd(half, top_padding))
        data_y == QAdd(inst.render_y, QAdd(inst.name_section_bottom, half))
        adp_y == QAdd(inst.render_y, QAdd(inst.adapter_section_top, half))
        p1 == AssignPorts(inst.port_positions, inst.event_inputs, left, ev_y)
        p2 == AssignPorts(p1, inst.event_outputs, right, ev_y)
        p3 == AssignPorts(p2, inst.data_inputs, left, data_y)
        p4 == AssignPorts(p3, inst.data_outputs, right, data_y)
        p5 == AssignPorts(p4, inst.sockets, left, adp_y)
        p6 == AssignPorts(p5, inst.plugs, right, adp_y)
    IN  [inst EXCEPT !.port_positions = p6]

(***************************************************************************)
(* Sidebar placement                                                       *)
(***************************************************************************)
\* names of the boundary ports of one direction, in declaration order
RECURSIVE PortsOf(_, _)
PortsOf(ports, direction) ==
    IF ports = <<>> THEN <<>>
    ELSE IF Head(ports).direction = direction
         THEN <<Head(ports).name>> \o PortsOf(Tail(ports), direction)
         ELSE PortsOf(Tail(ports), direction)

\* the width of a sidebar whose labels are measured in full
SidebarWidthUntruncated(names, settings) ==
    LET allowance == Q(2 + 3 + TRIANGLE_WIDTH)
        widest == QMaxSet({Q(0)} \cup {_measure_text(n) : n \in ToSet(names)})
        w == IF names # <<>> THEN QAdd(widest, allowance) ELSE widest
        min_iface_w == IF settings.min_interface_bar_size > 0
                       THEN _measure_text(Ws(settings.min_interface_bar_size))
                       ELSE Q(0)
    IN  IF names # <<>> /\ QLt(w, QAdd(min_iface_w, allowance))
        THEN QAdd(min_iface_w, allowance) ELSE w

\* width of a sidebar holding the boundary ports `names`
SidebarWidth(names, settings) ==
    LET allowance == Q(2 + 3 + TRIANGLE_WIDTH)
        widest == QMaxSet({Q(0)} \cup
            {_measure_text(_truncate_label(n, settings.max_interface_bar_size)) :
                 n \in ToSet(names)})
        w == IF names # <<>> THEN QAdd(widest, allowance) ELSE widest
        min_iface_w == IF settings.min_interface_bar_size > 0
                       THEN _measure_text(Ws(settings.min_interface_bar_size))
                       ELSE Q(0)
    IN  IF names # <<>> /\ QLt(w, QAdd(min_iface_w, allowance))
        THEN QAdd(min_iface_w, allowance) ELSE w

\* the smallest scaled dx1 of the connections leaving an input boundary port
MaxTurnXLeftSmallest(mdl, S) ==
    LET input_port_names == ToSet(PortsOf(mdl.interface_ports, "input"))
    IN  QMinSet({Q(0)} \cup
          {QMul(Q(mdl.connections[k].dx1), S) : k \in
              {j \in 1..Len(mdl.connections) :
                  LET c == mdl.connections[j]
                      src_parts == Split(c.source, ".")
                  IN  /\ Len(src_parts) = 1
                      /\ src_parts[1] \in input_port_names
                      /\ c.dx1 # 0}})

\* max_turn_x_left: the largest scaled dx1 of the connections leaving an input
\* boundary port
MaxTurnXLeft(mdl, S) ==
    LET input_port_names == ToSet(PortsOf(mdl.interface_ports, "input"))
    IN  QMaxSet({Q(0)} \cup
          {QMul(Q(mdl.connections[k].dx1), S) : k \in
              {j \in 1..Len(mdl.connections) :
                  LET c == mdl.connections[j]
                      src_parts == Split(c.source, ".")
                  IN  /\ Len(src_parts) = 1
                      /\ src_parts[1] \in input_port_names
                      /\ c.dx1 # 0}})

\* the right edge of the instance area alone, whatever the turn points
MaxRightTurnXInstancesOnly(mdl, S, inst_max_x) == inst_max_x

\* max_right_turn_x: the rightmost of the instance area and of the turn points
\* of the connections from a resolved instance port to an output boundary port
MaxRightTurnX(mdl, S, inst_max_x) ==
    LET output_port_names == ToSet(PortsOf(mdl.interface_ports, "output"))
        instance_map_tmp == DictByName(mdl.instances)
    IN  QMaxSet({inst_max_x} \cup
          {LET c == mdl.connections[k]
               src_parts == Split(c.source, ".")
               src_x == instance_map_tmp[src_parts[1]].port_positions[src_parts[2]][1]
           IN  QAdd(src_x, QMul(Q(c.dx1), S)) : k \in
              {j \in 1..Len(mdl.connections) :
                  LET c == mdl.connections[j]
                      src_parts == Split(c.source, ".")
                      dst_parts == Split(c.destination, ".")
                  IN  /\ Len(dst_parts) = 1
                      /\ dst_parts[1] \in output_port_names
                      /\ c.dx1 # 0
                      /\ Len(src_parts) = 2
                      /\ src_parts[1] \in DOMAIN instance_map_tmp
                      /\ src_parts[2] \in
                           DOMAIN instance_map_tmp[src_parts[1]].port_positions}})

\* boundary ports laid out from the very top of their sidebar
PositionInterfacePortsFromTop(eng, mdl) ==
    IF mdl.instances = <<>> /\ mdl.interface_ports = <<>> THEN mdl
    ELSE
    LET insts == mdl.instances
        ports == mdl.interface_ports
        S == eng.SCALE
        inputs == PortsOf(ports, "input")
        outputs == PortsOf(ports, "output")
        input_sidebar_w == SidebarWidth(inputs, eng.settings)
        output_sidebar_w == SidebarWidth(outputs, eng.settings)
        I == 1..Len(insts)
        inst_min_x == IF insts # <<>>
                      THEN QMinSet({insts[i].render_x : i \in I}) ELSE Q(MARGIN)
        inst_max_x == IF insts # <<>>
                      THEN QMaxSet({QAdd(insts[i].render_x, insts[i].block_width) : i \in I})
                      ELSE Q(MARGIN + 200)
        inst_min_y == IF insts # <<>>
                      THEN QMinSet({QSub(insts[i].render_y, Q(20)) : i \in I})
                      ELSE Q(MARGIN)
        inst_max_y == IF insts # <<>>
                      THEN QMaxSet({QAdd(insts[i].render_y, insts[i].block_height) : i \in I})
                      ELSE Q(MARGIN + 200)
        sidebar_gap_left == QAdd(MaxTurnXLeft(mdl, S), Q(58))
        input_sidebar_right == QSub(inst_min_x, sidebar_gap_left)
        input_sidebar_left == QSub(input_sidebar_right, input_sidebar_w)
        output_sidebar_left == QAdd(MaxRightTurnX(mdl, S, inst_max_x), Q(58))
        sidebar_top == QSub(inst_min_y, Q(38))
        sidebar_row_h == 17
        top_pad == Q(sidebar_row_h)
        content_h == QSub(QAdd(inst_max_y, Q(10)), sidebar_top)
        input_sidebar_h == QMax(IF inputs # <<>>
                                THEN QAdd(Q(Len(inputs) * sidebar_row_h), top_pad)
                                ELSE Q(0), content_h)
        output_sidebar_h == QMax(IF outputs # <<>>
                                 THEN QAdd(Q(Len(outputs) * sidebar_row_h), top_pad)
                                 ELSE Q(0), content_h)
        \* enumerate(inputs) / enumerate(outputs): index among the same direction
        rank(k) == Cardinality({j \in 1..(k - 1) : ports[j].direction = ports[k].direction})
        port_y(k) == QAdd(sidebar_top, Q(rank(k) * sidebar_row_h))
    IN  [mdl EXCEPT
           !.input_sidebar_width = input_sidebar_w,
           !.output_sidebar_width = output_sidebar_w,
           !.input_sidebar_rect =
               IF inputs # <<>>
               THEN <<input_sidebar_left, sidebar_top, input_sidebar_w, input_sidebar_h>>
               ELSE None,
           !.output_sidebar_rect =
               IF outputs # <<>>
               THEN <<output_sidebar_left, sidebar_top, output_sidebar_w, output_sidebar_h>>
               ELSE None,
           !.interface_ports = [k \in 1..Len(ports) |->
               IF ports[k].direction = "input"
               THEN [ports[k] EXCEPT !.render_x = input_sidebar_right,
                                     !.render_y = port_y(k)]
               ELSE IF ports[k].direction = "output"
               THEN [ports[k] EXCEPT !.render_x = output_sidebar_left,
                                     !.render_y = port_y(k)]
               ELSE ports[k]]]

\* NetworkLayoutEngine._position_interface_ports
_position_interface_ports(eng, mdl) ==
    IF mdl.instances = <<>> /\ mdl.interface_ports = <<>> THEN mdl
    ELSE
    LET insts == mdl.instances
        ports == mdl.interface_ports
        S == eng.SCALE
        inputs == PortsOf(ports, "input")
        outputs == PortsOf(ports, "output")
        input_sidebar_w == SidebarWidth(inputs, eng.settings)
        output_sidebar_w == SidebarWidth(outputs, eng.settings)
        I == 1..Len(insts)
        inst_min_x == IF insts # <<>>
                      THEN QMinSet({insts[i].render_x : i \in I}) ELSE Q(MARGIN)
        inst_max_x == IF insts # <<>>
                      THEN QMaxSet({QAdd(insts[i].render_x, insts[i].block_width) : i \in I})
                      ELSE Q(MARGIN + 200)
        inst_min_y == IF insts # <<>>
                      THEN QMinSet({QSub(insts[i].render_y, Q(20)) : i \in I})
                      ELSE Q(MARGIN)
        inst_max_y == IF insts # <<>>
                      THEN QMaxSet({QAdd(insts[i].render_y, insts[i].block_height) : i \in I})
                      ELSE Q(MARGIN + 200)
        sidebar_gap_left == QAdd(MaxTurnXLeft(mdl, S), Q(58))
        input_sidebar_right == QSub(inst_min_x, sidebar_gap_left)
        input_sidebar_left == QSub(input_sidebar_right, input_sidebar_w)
        output_sidebar_left == QAdd(MaxRightTurnX(mdl, S, inst_max_x), Q(58))
        sidebar_top == QSub(inst_min_y, Q(38))
        sidebar_row_h == 17
        top_pad == Q(sidebar_row_h)
        content_h == QSub(QAdd(inst_max_y, Q(10)), sidebar_top)
        input_sidebar_h == QMax(IF inputs # <<>>
                                THEN QAdd(Q(Len(inputs) * sidebar_row_h), top_pad)
                                ELSE Q(0), content_h)
        output_sidebar_h == QMax(IF outputs # <<>>
                                 THEN QAdd(Q(Len(outputs) * sidebar_row_h), top_pad)
                                 ELSE Q(0), content_h)
        \* enumerate(inputs) / enumerate(outputs): index among the same direction
        rank(k) == Cardinality({j \in 1..(k - 1) : ports[j].direction = ports[k].direction})
        port_y(k) == QAdd(QAdd(sidebar_top, top_pad), Q(rank(k) * sidebar_row_h))
    IN  [mdl EXCEPT
           !.input_sidebar_width = input_sidebar_w,
           !.output_sidebar_width = output_sidebar_w,
           !.input_sidebar_rect =
               IF inputs # <<>>
               THEN <<input_sidebar_left, sidebar_top, input_sidebar_w, input_sidebar_h>>
               ELSE None,
           !.output_sidebar_rect =
               IF outputs # <<>>
               THEN <<output_sidebar_left, sidebar_top, output_sidebar_w, output_sidebar_h>>
               ELSE None,
           !.interface_ports = [k \in 1..Len(ports) |->
               IF ports[k].direction = "input"
               THEN [ports[k] EXCEPT !.render_x = input_sidebar_right,
                                     !.render_y = port_y(k)]
               ELSE IF ports[k].direction = "output"
               THEN [ports[k] EXCEPT !.render_x = output_sidebar_left,
                                     !.render_y = port_y(k)]
               ELSE ports[k]]]

(***************************************************************************)
(* Header and border derivation                                            *)
(***************************************************************************)
HEADER_HEIGHT == 25

\* the x extents and the y extents of a rectangle (x, y, w, h), none for None
RectXs(r) == IF r = None THEN {} ELSE {r[1], QAdd(r[1], r[3])}
RectYs(r) == IF r = None THEN {} ELSE {r[2], QAdd(r[2], r[4])}

\* all_x and all_y of _compute_header_and_border and get_diagram_bounds
AllXInstancesOnly(mdl) ==
    UNION {{mdl.instances[i].render_x,
            QAdd(mdl.instances[i].render_x, mdl.instances[i].block_width)} :
               i \in 1..Len(mdl.instances)}

AllX(mdl) ==
    UNION {{mdl.instances[i].render_x,
            QAdd(mdl.instances[i].render_x, mdl.instances[i].block_width)} :
               i \in 1..Len(mdl.instances)}
      \cup RectXs(mdl.input_sidebar_rect) \cup RectXs(mdl.output_sidebar_rect)

AllY(mdl) ==
    UNION {{QSub(mdl.instances[i].render_y, Q(20)),
            QAdd(mdl.instances[i].render_y, mdl.instances[i].block_height)} :
               i \in 1..Len(mdl.instances)}
      \cup RectYs(mdl.input_sidebar_rect) \cup RectYs(mdl.output_sidebar_rect)

\* header and border without the adjustment of the sidebars
HeaderAndBorderNoStretch(mdl) ==
    IF AllX(mdl) = {} THEN mdl
    ELSE
    LET content_left == QMinSet(AllX(mdl))
        content_right == QMaxSet(AllX(mdl))
        content_top == QMinSet(AllY(mdl))
        content_bottom == QMaxSet(AllY(mdl))
        border_w == QSub(content_right, content_left)
        header_y == QSub(QSub(content_top, Q(20)), Q(HEADER_HEIGHT))
        border_h == QSub(QAdd(content_bottom, Q(20)), header_y)
    IN  [mdl EXCEPT
           !.header_rect = <<content_left, header_y, border_w, Q(HEADER_HEIGHT)>>,
           !.outer_border_rect = <<content_left, header_y, border_w, border_h>>]

\* NetworkLayoutEngine._compute_header_and_border
_compute_header_and_border(mdl) ==
    IF AllX(mdl) = {} THEN mdl
    ELSE
    LET content_left == QMinSet(AllX(mdl))
        content_right == QMaxSet(AllX(mdl))
        content_top == QMinSet(AllY(mdl))
        content_bottom == QMaxSet(AllY(mdl))
        border_pad_v == Q(20)
        border_x == content_left
        border_w == QSub(content_right, content_left)
        header_y == QSub(QSub(content_top, border_pad_v), Q(HEADER_HEIGHT))
        border_y == header_y
        border_h == QSub(QAdd(content_bottom, border_pad_v), header_y)
        header_bottom == QAdd(header_y, Q(HEADER_HEIGHT))
        sidebar_bottom == QAdd(border_y, border_h)
        stretch(r) == IF r = None THEN None
                      ELSE <<r[1], header_bottom, r[3], QSub(sidebar_bottom, header_bottom)>>
    IN  [mdl EXCEPT
           !.header_rect = <<border_x, header_y, border_w, Q(HEADER_HEIGHT)>>,
           !.outer_border_rect = <<border_x, border_y, border_w, border_h>>,
           !.input_sidebar_rect = stretch(mdl.input_sidebar_rect),
           !.output_sidebar_rect = stretch(mdl.output_sidebar_rect)]

\* the bounds without the fallback for an empty diagram
DiagramBoundsNoFallback(mdl) ==
    IF mdl.outer_border_rect # None
    THEN LET b == mdl.outer_border_rect
         IN  <<b[1], b[2], QAdd(b[1], b[3]), QAdd(b[2], b[4])>>
    ELSE <<Q(0), Q(0), Q(0), Q(0)>>

\* NetworkLayoutEngine.get_diagram_bounds: (min_x, min_y, max_x, max_y)
get_diagram_bounds(mdl) ==
    IF mdl.outer_border_rect # None
    THEN LET b == mdl.outer_border_rect
         IN  <<b[1], b[2], QAdd(b[1], b[3]), QAdd(b[2], b[4])>>
    ELSE IF AllX(mdl) = {} THEN <<Q(0), Q(0), Q(100), Q(100)>>
    ELSE <<QMinSet(AllX(mdl)), QMinSet(AllY(mdl)),
           QMaxSet(AllX(mdl)), QMaxSet(AllY(mdl))>>

\* NetworkLayoutEngine.layout: the engine and the model after it
layout(eng, mdl) ==
    LET sized == [mdl EXCEPT !.instances =
                     [i \in 1..Len(mdl.instances) |->
                          _size_instance(mdl.instances[i], eng.settings)]]
        placed == _position_instances(eng, sized)
        ported == [placed.model EXCEPT !.instances =
                     [i \in 1..Len(placed.model.instances) |->
                          _compute_port_positions(placed.model.instances[i])]]
        barred == _position_interface_ports(placed.engine, ported)
    IN  [engine |-> placed.engine, model |-> _compute_header_and_border(barred)]

(***************************************************************************)
(* Connection routing                                                      *)
(***************************************************************************)
\* ConnectionRouter._resolve_endpoint: a coordinate, or None
_resolve_endpoint(endpoint, instance_map, interface_map) ==
    LET parts == Split(endpoint, ".")
    IN  IF Len(parts) = 2
        THEN IF /\ parts[1] \in DOMAIN instance_map
                /\ parts[2] \in DOMAIN instance_map[parts[1]].port_positions
             THEN instance_map[parts[1]].port_positions[parts[2]]
             ELSE None
        ELSE IF Len(parts) = 1
        THEN IF parts[1] \in DOMAIN interface_map
             THEN <<interface_map[parts[1]].render_x, interface_map[parts[1]].render_y>>
             ELSE None
        ELSE None

\* the first loop of _simplify_points: drop a point equal to the last one kept
RECURSIVE DropDuplicates(_, _)
DropDuplicates(result, rest) ==
    IF rest = <<>> THEN result
    ELSE LET p == Head(rest)
             l == result[Len(result)]
         IN  DropDuplicates(
                 IF \/ QLt(Rat(1, 10), QAbs(QSub(p[1], l[1])))
                    \/ QLt(Rat(1, 10), QAbs(QSub(p[2], l[2])))
                 THEN Append(result, p) ELSE result,
                 Tail(rest))

\* the second loop of _simplify_points: drop result[i] when it lies on one
\* vertical or one horizontal line with the last point kept and result[i + 1]
RECURSIVE DropCollinear(_, _, _)
DropCollinear(simplified, result, i) ==
    IF i > Len(result) - 1 THEN Append(simplified, result[Len(result)])
    ELSE LET p0 == simplified[Len(simplified)]
             p1 == result[i]
             p2 == result[i + 1]
             near(a, b) == QLt(QAbs(QSub(a, b)), Rat(1, 10))
             keep == /\ ~(near(p0[1], p1[1]) /\ near(p1[1], p2[1]))
                     /\ ~(near(p0[2], p1[2]) /\ near(p1[2], p2[2]))
         IN  DropCollinear(IF keep THEN Append(simplified, p1) ELSE simplified,
                           result, i + 1)

\* ConnectionRouter._simplify_points
_simplify_points(points) ==
    IF Len(points) < 2 THEN points
    ELSE LET result == DropDuplicates(<<points[1]>>, Tail(points))
         IN  IF Len(result) < 3 THEN result
             ELSE DropCollinear(<<result[1]>>, result, 2)

\* the raw waypoints of a connection between a boundary port and an instance port
RouteInterface(x1, y1, x2, y2, dx1) ==
    IF QLt(QAbs(QSub(y1, y2)), Q(1)) /\ dx1 = Q(0)
    THEN <<<<x1, y1>>, <<x2, y2>>>>
    ELSE LET turn_x == IF dx1 # Q(0) THEN QAdd(x1, dx1)
                       ELSE QDiv(QAdd(x1, x2), Q(2))
         IN  <<<<x1, y1>>, <<turn_x, y1>>, <<turn_x, y2>>, <<x2, y2>>>>

\* the same without the minimum detour of 30 pixels
RouteInstancesNoFloor(x1, y1, x2, y2, dx1, dx2, dy) ==
        IF dy = Q(0)
        THEN IF dx1 # Q(0)
             THEN LET mid_x == QAdd(x1, dx1)
                  IN  <<<<x1, y1>>, <<mid_x, y1>>, <<mid_x, y2>>, <<x2, y2>>>>
             ELSE LET mid_x == QDiv(QAdd(x1, x2), Q(2))
                  IN  IF QLt(QAbs(QSub(y1, y2)), Q(1))
                      THEN <<<<x1, y1>>, <<x2, y2>>>>
                      ELSE <<<<x1, y1>>, <<mid_x, y1>>, <<mid_x, y2>>, <<x2, y2>>>>
        ELSE LET seg1_x == QAdd(x1, dx1)
                 seg_y == QAdd(y1, dy)
                 seg2_x == QSub(x2, dx2)
             IN  IF dx2 # Q(0)
                 THEN <<<<x1, y1>>, <<seg1_x, y1>>, <<seg1_x, seg_y>>,
                        <<seg2_x, seg_y>>, <<seg2_x, y2>>, <<x2, y2>>>>
                 ELSE <<<<x1, y1>>, <<seg1_x, y1>>, <<seg1_x, seg_y>>,
                        <<x2, seg_y>>, <<x2, y2>>>>

\* the same with the second column on the far side of the destination
RouteInstancesMirrored(x1, y1, x2, y2, dx1, dx2, dy) ==
    LET MIN_ROUTE_DX == Q(30)
    IN  IF dy = Q(0)
        THEN IF dx1 # Q(0)
             THEN LET mid_x == IF QLt(QAbs(dx1), MIN_ROUTE_DX)
                               THEN QAdd(x1, IF QLt(Q(0), dx1) THEN MIN_ROUTE_DX
                                             ELSE QSub(Q(0), MIN_ROUTE_DX))
                               ELSE QAdd(x1, dx1)
                  IN  <<<<x1, y1>>, <<mid_x, y1>>, <<mid_x, y2>>, <<x2, y2>>>>
             ELSE LET mid_x == QDiv(QAdd(x1, x2), Q(2))
                  IN  IF QLt(QAbs(QSub(y1, y2)), Q(1))
                      THEN <<<<x1, y1>>, <<x2, y2>>>>
                      ELSE <<<<x1, y1>>, <<mid_x, y1>>, <<mid_x, y2>>, <<x2, y2>>>>
        ELSE LET seg1_x == QAdd(x1, dx1)
                 seg_y == QAdd(y1, dy)
                 seg2_x == QAdd(x2, dx2)
             IN  IF dx2 # Q(0)
                 THEN <<<<x1, y1>>, <<seg1_x, y1>>, <<seg1_x, seg_y>>,
                        <<seg2_x, seg_y>>, <<seg2_x, y2>>, <<x2, y2>>>>
                 ELSE <<<<x1, y1>>, <<seg1_x, y1>>, <<seg1_x, seg_y>>,
                        <<x2, seg_y>>, <<x2, y2>>>>

\* the raw waypoints of a connection between two instance ports
RouteInstances(x1, y1, x2, y2, dx1, dx2, dy) ==
    LET MIN_ROUTE_DX == Q(30)
    IN  IF dy = Q(0)
        THEN IF dx1 # Q(0)
             THEN LET mid_x == IF QLt(QAbs(dx1), MIN_ROUTE_DX)
                               THEN QAdd(x1, IF QLt(Q(0), dx1) THEN MIN_ROUTE_DX
                                             ELSE QSub(Q(0), MIN_ROUTE_DX))
                               ELSE QAdd(x1, dx1)
                  IN  <<<<x1, y1>>, <<mid_x, y1>>, <<mid_x, y2>>, <<x2, y2>>>>
             ELSE LET mid_x == QDiv(QAdd(x1, x2), Q(2))
                  IN  IF QLt(QAbs(QSub(y1, y2)), Q(1))
                      THEN <<<<x1, y1>>, <<x2, y2>>>>
                      ELSE <<<<x1, y1>>, <<mid_x, y1>>, <<mid_x, y2>>, <<x2, y2>>>>
        ELSE LET seg1_x == QAdd(x1, dx1)
                 seg_y == QAdd(y1, dy)
                 seg2_x == QSub(x2, dx2)
             IN  IF dx2 # Q(0)
                 THEN <<<<x1, y1>>, <<seg1_x, y1>>, <<seg1_x, seg_y>>,
                        <<seg2_x, seg_y>>, <<seg2_x, y2>>, <<x2, y2>>>>
                 ELSE <<<<x1, y1>>, <<seg1_x, y1>>, <<seg1_x, seg_y>>,
                        <<x2, seg_y>>, <<x2, y2>>>>

\* ConnectionRouter.route with self.SCALE = SCALE: the list of waypoints
RouteUnchecked(conn, instance_map, interface_map, SCALE) ==
    LET src_pos == _resolve_endpoint(conn.source, instance_map, interface_map)
        dst_pos == _resolve_endpoint(conn.destination, instance_map, interface_map)
    IN  IF src_pos = None /\ dst_pos = None THEN <<>>
        ELSE LET s == IF src_pos = None THEN <<Q(0), Q(0)>> ELSE src_pos
                 d == IF dst_pos = None THEN <<Q(0), Q(0)>> ELSE dst_pos
             IN  _simplify_points(
                     RouteInstances(s[1], s[2], d[1], d[2],
                                    QMul(Q(conn.dx1), SCALE), QMul(Q(conn.dx2), SCALE),
                                    QMul(Q(conn.dy), SCALE)))

route(conn, instance_map, interface_map, SCALE) ==
    LET src_pos == _resolve_endpoint(conn.source, instance_map, interface_map)
        dst_pos == _resolve_endpoint(conn.destination, instance_map, interface_map)
    IN  IF src_pos = None \/ dst_pos = None THEN <<>>
        ELSE
        LET x1 == src_pos[1]
            y1 == src_pos[2]
            x2 == dst_pos[1]
            y2 == dst_pos[2]
            src_parts == Split(conn.source, ".")
            dst_parts == Split(conn.destination, ".")
            src_is_iface == Len(src_parts) = 1 /\ src_parts[1] \in DOMAIN interface_map
            dst_is_iface == Len(dst_parts) = 1 /\ dst_parts[1] \in DOMAIN interface_map
            dx1 == QMul(Q(conn.dx1), SCALE)
            dx2 == QMul(Q(conn.dx2), SCALE)
            dy == QMul(Q(conn.dy), SCALE)
        IN  IF (src_is_iface /\ ~dst_is_iface) \/ (dst_is_iface /\ ~src_is_iface)
            THEN _simplify_points(RouteInterface(x1, y1, x2, y2, dx1))
            ELSE _simplify_points(RouteInstances(x1, y1, x2, y2, dx1, dx2, dy))

\* NetworkSVGRenderer.render: the view box and, per connection, the waypoints
\* the router returned (an empty list is not drawn)
render(mdl, eng) ==
    LET instance_map == DictByName(mdl.instances)
        interface_map == DictByName(mdl.interface_ports)
        b == get_diagram_bounds(mdl)
        padding == Q(7)
    IN  [view_box |-> <<QSub(b[1], padding), QSub(b[2], padding),
                        QAdd(QSub(b[3], b[1]), QMul(padding, Q(2))),
                        QAdd(QSub(b[4], b[2]), QMul(padding, Q(2)))>>,
         routes |-> [k \in 1..Len(mdl.connections) |->
                        route(mdl.connections[k], instance_map, interface_map,
                              eng.SCALE)]]

(***************************************************************************)
(* Inputs: the networks, scales and settings a conversion job is given     *)
(***************************************************************************)
MaxInstances == 2
MaxPorts == 2
MaxConnections == 2
MaxLabelLen == 3

Xs(n) == [i \in 1..n |-> "x"]
Digit == <<"1", "2", "3", "4", "5">>

\* resolved interfaces: a block with no ports at all, and a basic block whose
\* qualified type name is longer than the type-label limit
BareShape ==
    [type_name |-> <<"E">>, ei |-> <<>>, eo |-> <<>>, di |-> <<>>, do |-> <<>>,
     plugs |-> <<>>, sockets |-> <<>>]
BasicShape ==
    [type_name |-> <<"l", "i", "b", ":", ":">> \o Xs(16),
     ei |-> <<<<"R", "E", "Q">>>>, eo |-> <<<<"C", "N", "F">>>>,
     di |-> <<<<"I", "N", "1">>, <<"I", "N", "2">>>>, do |-> <<<<"O", "U", "T">>>>,
     plugs |-> <<>>, sockets |-> <<>>]
Shapes == {BareShape, BasicShape}

DesignX == {0, 100, 1200}
DesignY == {0, 100}

\* the i-th instance of a network, named F<i>
Instance(i, x, y, sh) ==
    FBInstance(<<"F", Digit[i]>>, sh.type_name, x, y,
               sh.ei, sh.eo, sh.di, sh.do, sh.plugs, sh.sockets)

InstanceLists(n, XS, YS, SH) ==
    {[i \in 1..n |-> Instance(i, f[i][1], f[i][2], f[i][3])] :
         f \in [1..n -> XS \X YS \X SH]}

PortI1 == InterfacePort(<<"I", "1">>, "input")
PortI2 == InterfacePort(<<"I">> \o Xs(44), "input")
PortO1 == InterfacePort(<<"O", "1">>, "output")
BoundaryLists == {<<>>, <<PortI1>>, <<PortO1>>, <<PortI1, PortO1, PortI2>>}

\* endpoint references
RefI1 == <<"I", "1">>
RefO1 == <<"O", "1">>
RefF1CNF == <<"F", "1", ".", "C", "N", "F">>
RefF1REQ == <<"F", "1", ".", "R", "E", "Q">>
RefF2REQ == <<"F", "2", ".", "R", "E", "Q">>
RefF1OUT == <<"F", "1", ".", "O", "U", "T">>
RefF2IN1 == <<"F", "2", ".", "I", "N", "1">>
RefNoInstance == <<"F", "9", ".", "R", "E", "Q">>
RefNoPort == <<"F", "1", ".", "Z">>
RefNoBoundary == <<"Z">>
RefTwoDots == <<"F", "1", ".", "R", "E", "Q", ".", "x">>

\* the connections of the networks whose instances vary
PlacementConnections ==
    <<Connection(RefI1, RefF1REQ, 200, 0, 0),
      Connection(RefF1CNF, RefO1, 300, 0, 0),
      Connection(RefF1CNF, RefF2REQ, 50, 0, 0)>>

\* networks of up to MaxInstances instances at varying design coordinates
PlacementNetworks ==
    UNION {{NetworkModel(insts, conns, ports) :
                insts \in InstanceLists(n, DesignX, DesignY, Shapes),
                conns \in {PlacementConnections},
                ports \in BoundaryLists} : n \in 0..MaxInstances}

\* the connections of the networks whose connections vary: resolved ones and
\* ones with an endpoint that resolves to nothing
ConnectionCatalogue ==
    {Connection(RefI1, RefF1REQ, 200, 0, 0),
     Connection(RefF1CNF, RefO1, 300, 0, 0),
     Connection(RefF1OUT, RefF2IN1, 100, 100, -200),
     Connection(RefI1, RefNoInstance, 500, 0, 0),
     Connection(RefF1CNF, RefNoBoundary, 400, 0, 0),
     Connection(RefNoPort, RefO1, 600, 0, 0),
     Connection(RefF1CNF, RefTwoDots, 50, 0, 100)}

ConnectionLists ==
    UNION {[1..n -> ConnectionCatalogue] : n \in 0..MaxConnections}

\* two basic blocks side by side or stacked, between an input and an output
\* boundary port
WiredNetworks ==
    {NetworkModel(<<Instance(1, 0, 0, BasicShape), Instance(2, p[1], p[2], BasicShape)>>,
                  conns, <<PortI1, PortO1>>) :
         p \in {<<1200, 100>>, <<0, 100>>}, conns \in ConnectionLists}

\* the scales a caller passes: None (auto), or an explicit value
Scales == {None, Rat(1, 4)}

Jobs ==
    {[scale |-> sc, settings |-> BlockSizeSettings, network |-> net] :
         sc \in Scales, net \in PlacementNetworks \cup WiredNetworks}

IdleLabel == [text |-> <<>>, max_len |-> 0, step |-> "idle", out |-> <<>>, again |-> <<>>]

(***************************************************************************)
(* The conversion job: convert_network_to_svg after parsing                *)
(***************************************************************************)
Init ==
    /\ job \in Jobs
    /\ engine = NewEngine(job.scale, job.settings)
    /\ model = job.network
    /\ svg = None
    /\ pc = "parsed"
    /\ label = IdleLabel

\* layout.layout(model); a caller may lay the same model out again
Layout ==
    /\ LET r == layout(engine, model)
       IN  engine' = r.engine /\ model' = r.model
    /\ pc' = IF pc = "parsed" THEN "laid_out" ELSE pc
    /\ UNCHANGED <<svg, job, label>>

\* renderer.render(model, layout)
Render ==
    /\ pc # "parsed"
    /\ svg' = render(model, engine)
    /\ pc' = "rendered"
    /\ UNCHANGED <<engine, model, job, label>>

Next == Layout \/ Render

Spec == Init /\ [][Next]_vars

(***************************************************************************)
(* Sizing jobs: one instance whose six port lists and type name vary       *)
(***************************************************************************)
\* a settings file with small limits, so that short labels are truncated
TightSettings ==
    [max_type_label_size |-> 4, min_pin_label_size |-> 2,
     max_pin_label_size |-> 3, min_interface_bar_size |-> 3,
     max_interface_bar_size |-> 5]

\* the j-th port of a list: a name of 2, 9, 16, ... characters
PortName(prefix, j) == <<prefix>> \o Xs(7 * j - 6)
PortLists(prefix) ==
    {[j \in 1..n |-> PortName(prefix, j)] : n \in 0..MaxPorts}

SizingShapes ==
    {[type_name |-> t, ei |-> ei, eo |-> eo, di |-> di, do |-> do,
      plugs |-> pl, sockets |-> so] :
         t \in {<<"E">>, BasicShape.type_name},
         ei \in PortLists("a"), eo \in PortLists("b"),
         di \in PortLists("c"), do \in PortLists("d"),
         pl \in PortLists("p"), so \in PortLists("s")}

SizingJobs ==
    {[scale |-> None, settings |-> st,
      network |-> NetworkModel(<<Instance(1, 0, 0, sh)>>,
                               <<Connection(RefI1, <<"F", "1", ".", "a", "x">>, 0, 0, 0)>>,
                               <<PortI1>>)] :
         st \in {BlockSizeSettings, TightSettings}, sh \in SizingShapes}

InitSizing ==
    /\ job \in SizingJobs
    /\ engine = NewEngine(job.scale, job.settings)
    /\ model = job.network
    /\ svg = None
    /\ pc = "parsed"
    /\ label = IdleLabel

SpecSizing == InitSizing /\ [][Next]_vars

(***************************************************************************)
(* Label truncation on its own                                             *)
(***************************************************************************)
LabelAlphabet == {"a", "b", Ellipsis}
Texts == UNION {[1..n -> LabelAlphabet] : n \in 0..MaxLabelLen}
Limits == (-1)..(MaxLabelLen + 1)

IdleJob ==
    [scale |-> None, settings |-> BlockSizeSettings,
     network |-> NetworkModel(<<>>, <<>>, <<>>)]

InitTruncate ==
    /\ job = IdleJob
    /\ engine = NewEngine(job.scale, job.settings)
    /\ model = job.network
    /\ svg = None
    /\ pc = "parsed"
    /\ \E t \in Texts, n \in Limits :
          label = [text |-> t, max_len |-> n, step |-> "input",
                   out |-> <<>>, again |-> <<>>]

\* out = _truncate_label(text, max_len)
Truncate ==
    /\ label.step = "input"
    /\ label' = [label EXCEPT !.out = _truncate_label(label.text, label.max_len),
                              !.step = "truncated"]
    /\ UNCHANGED <<engine, model, svg, pc, job>>

\* again = _truncate_label(out, max_len)
TruncateAgain ==
    /\ label.step = "truncated"
    /\ label' = [label EXCEPT !.again = _truncate_label(label.out, label.max_len),
                              !.step = "retruncated"]
    /\ UNCHANGED <<engine, model, svg, pc, job>>

NextTruncate == Truncate \/ TruncateAgain

SpecTruncate == InitTruncate /\ [][NextTruncate]_vars

(***************************************************************************)
(* Properties                                                              *)
(***************************************************************************)
Insts == model.instances
InstIdx == 1..Len(model.instances)
LaidOut == pc # "parsed"

\* rectangle a = (x, y, w, h) lies within rectangle b
Within(a, b) ==
    /\ QLe(b[1], a[1]) /\ QLe(QAdd(a[1], a[3]), QAdd(b[1], b[3]))
    /\ QLe(b[2], a[2]) /\ QLe(QAdd(a[2], a[4]), QAdd(b[2], b[4]))

BlockRect(i) ==
    <<Insts[i].render_x, Insts[i].render_y, Insts[i].block_width, Insts[i].block_height>>

\* the interiors of rectangles a and b intersect
Overlap(a, b) ==
    /\ QLt(a[1], QAdd(b[1], b[3])) /\ QLt(b[1], QAdd(a[1], a[3]))
    /\ QLt(a[2], QAdd(b[2], b[4])) /\ QLt(b[2], QAdd(a[2], a[4]))

\* the classification of the scale heuristic, on design coordinates:
\* instance i is above instance j and the pair is roughly stacked
StackedOver(i, j) ==
    /\ Insts[i].y < Insts[j].y
    /\ Abs(Insts[i].x - Insts[j].x) < 3 * (Insts[j].y - Insts[i].y)
\* instance i is left of instance j and the pair is roughly side by side
LeftOf(i, j) ==
    /\ Insts[i].x < Insts[j].x
    /\ Abs(Insts[i].y - Insts[j].y) < 3 * (Insts[j].x - Insts[i].x)
Unclassified(i, j) ==
    ~StackedOver(i, j) /\ ~StackedOver(j, i) /\ ~LeftOf(i, j) /\ ~LeftOf(j, i)

\* C1: after layout of a network with at least one instance or boundary port,
\* the outer border rectangle contains every instance block, both sidebars
\* (when present) and the header.
C1_BorderContainsAll ==
    (LaidOut /\ (model.instances # <<>> \/ model.interface_ports # <<>>)) =>
        /\ model.outer_border_rect # None
        /\ model.header_rect # None
        /\ \A i \in InstIdx : Within(BlockRect(i), model.outer_border_rect)
        /\ model.input_sidebar_rect # None =>
               Within(model.input_sidebar_rect, model.outer_border_rect)
        /\ model.output_sidebar_rect # None =>
               Within(model.output_sidebar_rect, model.outer_border_rect)
        /\ Within(model.header_rect, model.outer_border_rect)

C1_Witness ==
    /\ LaidOut /\ Len(model.instances) = 2
    /\ model.input_sidebar_rect # None /\ model.output_sidebar_rect # None
    /\ model.outer_border_rect # None

\* C2: with no explicit scale, the vertical pixel gap between the bottom edge
\* of the upper block and the top edge of the lower block of every stacked
\* pair is at least the clearance of 60 pixels.
C2_StackedClearance ==
    (LaidOut /\ job.scale = None) =>
        \A i, j \in InstIdx :
            StackedOver(i, j) =>
                QLe(Q(60), QSub(Insts[j].render_y,
                                QAdd(Insts[i].render_y, Insts[i].block_height)))

C2_Witness ==
    /\ LaidOut /\ job.scale = None
    /\ \E i, j \in InstIdx :
          /\ StackedOver(i, j)
          /\ QSub(Insts[j].render_y, QAdd(Insts[i].render_y, Insts[i].block_height))
                 = Q(60)

\* C3 as stated: with no explicit scale, for every stacked pair the vertical
\* design gap times the resolved scale is at least the height of the TALLER
\* of the two blocks plus 60.
C3_TallerBlockFits ==
    (LaidOut /\ job.scale = None) =>
        \A i, j \in InstIdx :
            StackedOver(i, j) =>
                QLe(QAdd(QMax(Insts[i].block_height, Insts[j].block_height), Q(60)),
                    QMul(Q(Insts[j].y - Insts[i].y), engine.SCALE))

\* C3 amended: with no explicit scale, for every stacked pair the vertical
\* design gap times the resolved scale is at least the height of the UPPER
\* block plus 60.
C3_UpperBlockFits ==
    (LaidOut /\ job.scale = None) =>
        \A i, j \in InstIdx :
            StackedOver(i, j) =>
                QLe(QAdd(Insts[i].block_height, Q(60)),
                    QMul(Q(Insts[j].y - Insts[i].y), engine.SCALE))

C3_Witness ==
    /\ LaidOut /\ job.scale = None
    /\ \E i, j \in InstIdx :
          /\ StackedOver(i, j)
          /\ QLt(Insts[i].block_height, Insts[j].block_height)
          /\ QMul(Q(Insts[j].y - Insts[i].y), engine.SCALE)
                 = QAdd(Insts[i].block_height, Q(60))

\* C4 as stated: two instances classified as neither stacked nor adjacent
\* have block rectangles that do not overlap after layout.
C4_UnclassifiedNeverOverlap ==
    LaidOut =>
        \A i, j \in InstIdx :
            (i # j /\ Unclassified(i, j)) => ~Overlap(BlockRect(i), BlockRect(j))

\* C4 amended: two instances classified as neither stacked nor adjacent have
\* identical design coordinates; the pair puts no lower bound on the scale (a
\* network of only such pairs resolves to the default 0.16 when no scale is
\* given), both blocks get the same origin and so overlap at every scale.
C4_UnclassifiedCoincide ==
    LaidOut =>
        /\ \A i, j \in InstIdx :
              (i # j /\ Unclassified(i, j)) =>
                  /\ Insts[i].x = Insts[j].x /\ Insts[i].y = Insts[j].y
                  /\ Insts[i].render_x = Insts[j].render_x
                  /\ Insts[i].render_y = Insts[j].render_y
                  /\ Overlap(BlockRect(i), BlockRect(j))
        /\ (job.scale = None /\ \A i, j \in InstIdx : Unclassified(i, j)) =>
              engine.SCALE = DEFAULT_SCALE

C4_Witness ==
    /\ LaidOut /\ job.scale = None
    /\ \E i, j \in InstIdx :
          i # j /\ Unclassified(i, j) /\ Overlap(BlockRect(i), BlockRect(j))

\* the lower bounds the pairs of instances put on the scale
PairBounds ==
    {QDiv(QAdd(Insts[p[1]].block_height, Q(60)), Q(Insts[p[2]].y - Insts[p[1]].y)) :
         p \in {q \in InstIdx \X InstIdx : StackedOver(q[1], q[2])}}
    \cup
    {QDiv(QAdd(Insts[p[1]].block_width, Q(60)), Q(Insts[p[2]].x - Insts[p[1]].x)) :
         p \in {q \in InstIdx \X InstIdx : LeftOf(q[1], q[2])}}

\* C5: on a fresh engine a supplied scale is used as it is; with none, the
\* resolved scale is the maximum of 0.16, (upper height + 60) / vertical gap
\* over the stacked pairs and (left width + 60) / horizontal gap over the
\* adjacent pairs, and is 0.16 for fewer than two instances.
C5_ScaleResolution ==
    LaidOut =>
        /\ job.scale # None => engine.SCALE = job.scale
        /\ job.scale = None =>
              /\ \A b \in PairBounds \cup {Rat(16, 100)} : QLe(b, engine.SCALE)
              /\ engine.SCALE \in PairBounds \cup {Rat(16, 100)}
              /\ Len(model.instances) < 2 => engine.SCALE = Rat(16, 100)

C5_Witness ==
    /\ LaidOut /\ job.scale = None /\ Len(model.instances) = 2
    /\ PairBounds # {}
    /\ engine.SCALE = Rat(16, 100)

\* C6: after sizing every instance, one with no ports included, has
\* block_width >= max(80, name-section width, left-port width + center gap +
\* right-port width) and block_height = event_section_height + 16 +
\* data_section_height + adapter_section_height; both are positive.
C6_BlockDimensions ==
    LaidOut =>
        \A i \in InstIdx :
            /\ QLe(Q(80), Insts[i].block_width)
            /\ QLe(NameSectionWidth(Insts[i].type_name, engine.settings),
                   Insts[i].block_width)
            /\ QLe(PortsWidth(Insts[i], engine.settings), Insts[i].block_width)
            /\ Insts[i].block_height =
                   QAdd(QAdd(Insts[i].event_section_height, Q(16)),
                        QAdd(Insts[i].data_section_height,
                             Insts[i].adapter_section_height))
            /\ QLt(Q(0), Insts[i].block_width)
            /\ QLt(Q(0), Insts[i].block_height)

NoPorts(inst) ==
    /\ inst.event_inputs = <<>> /\ inst.event_outputs = <<>>
    /\ inst.data_inputs = <<>> /\ inst.data_outputs = <<>>
    /\ inst.sockets = <<>> /\ inst.plugs = <<>>

C6_Witness ==
    /\ LaidOut
    /\ \E i \in InstIdx :
          /\ NoPorts(Insts[i])
          /\ QLt(Q(80), NameSectionWidth(Insts[i].type_name, engine.settings))
          /\ Insts[i].block_width =
                 NameSectionWidth(Insts[i].type_name, engine.settings)

\* the rows a section with n_in inputs and n_out outputs must reserve
RowsWanted(n_in, n_out, least) ==
    CHOOSE r \in {n_in, n_out, least} : r >= n_in /\ r >= n_out /\ r >= least

\* C7: sizing reserves max(inputs, outputs, 1) rows for the event section and
\* for the data section (one row when the instance has no such ports) and
\* max(sockets, plugs) rows for the adapter section, whose height is 0 when
\* the instance has neither sockets nor plugs.
C7_SectionRows ==
    LaidOut =>
        \A i \in InstIdx :
            /\ QSub(Insts[i].event_section_height, section_padding) =
                   Q(16 * RowsWanted(Len(Insts[i].event_inputs),
                                     Len(Insts[i].event_outputs), 1))
            /\ QSub(Insts[i].data_section_height, section_padding) =
                   Q(16 * RowsWanted(Len(Insts[i].data_inputs),
                                     Len(Insts[i].data_outputs), 1))
            /\ Insts[i].adapter_section_height =
                   Q(16 * RowsWanted(Len(Insts[i].sockets), Len(Insts[i].plugs), 0))
            /\ (Insts[i].sockets = <<>> /\ Insts[i].plugs = <<>>) =>
                   Insts[i].adapter_section_height = Q(0)

C7_Witness ==
    /\ LaidOut
    /\ \E i \in InstIdx :
          /\ Insts[i].event_inputs = <<>> /\ Insts[i].event_outputs = <<>>
          /\ Len(Insts[i].data_inputs) = 2 /\ Insts[i].data_outputs = <<>>
          /\ Len(Insts[i].plugs) = 1 /\ Insts[i].sockets = <<>>
          /\ QSub(Insts[i].event_section_height, section_padding) = Q(16)
          /\ Insts[i].adapter_section_height = Q(16)

\* C8: truncating a truncated label again with the same limit changes
\* nothing, and a limit of 0 or less returns the text unchanged.
C8_TruncationIdempotent ==
    /\ label.step = "retruncated" => label.again = label.out
    /\ (label.step \in {"truncated", "retruncated"} /\ label.max_len <= 0) =>
           label.out = label.text

C8_Witness ==
    /\ label.step = "retruncated"
    /\ label.max_len > 0 /\ Len(label.text) > label.max_len
    /\ label.out # label.text

\* an endpoint reference that resolves to no coordinate: Instance.Port with an
\* unknown instance or a port without a recorded position, a bare name that
\* is no boundary port, or a reference with more than one dot
DotsOf(ref) == {i \in 1..Len(ref) : ref[i] = "."}
Unresolved(ref) ==
    IF Cardinality(DotsOf(ref)) > 1 THEN TRUE
    ELSE IF Cardinality(DotsOf(ref)) = 1
    THEN LET d == CHOOSE i \in DotsOf(ref) : TRUE
             inst_name == SubSeq(ref, 1, d - 1)
             port_name == SubSeq(ref, d + 1, Len(ref))
         IN  \A i \in InstIdx :
                 Insts[i].name = inst_name =>
                     port_name \notin DOMAIN Insts[i].port_positions
    ELSE \A k \in 1..Len(model.interface_ports) : model.interface_ports[k].name # ref

Dangling(conn) == Unresolved(conn.source) \/ Unresolved(conn.destination)

\* C9: route returns an empty waypoint list whenever either endpoint of the
\* connection fails to resolve.
C9_DanglingRouteEmpty ==
    pc = "rendered" =>
        \A k \in 1..Len(model.connections) :
            Dangling(model.connections[k]) => svg.routes[k] = <<>>

C9_Witness ==
    /\ pc = "rendered"
    /\ \E k \in 1..Len(model.connections) :
          /\ ~Unresolved(model.connections[k].source)
          /\ Unresolved(model.connections[k].destination)
          /\ svg.routes[k] = <<>>
    /\ \E k \in 1..Len(model.connections) :
          ~Dangling(model.connections[k]) /\ svg.routes[k] # <<>>

\* the network without its k-th connection
WithoutConnection(net, k) ==
    [net EXCEPT !.connections =
        SubSeq(net.connections, 1, k - 1)
            \o SubSeq(net.connections, k + 1, Len(net.connections))]

\* instance positions, port positions, sidebars, boundary ports, header, border
Geometry(mdl) ==
    [instances |-> mdl.instances, interface_ports |-> mdl.interface_ports,
     input_sidebar_rect |-> mdl.input_sidebar_rect,
     output_sidebar_rect |-> mdl.output_sidebar_rect,
     header_rect |-> mdl.header_rect, outer_border_rect |-> mdl.outer_border_rect]

\* C10: a connection with a dangling endpoint affects nothing but its own
\* rendering: the geometry and the routes of all other connections are those
\* of the same job on the network with that connection removed.
C10_DanglingConnectionInert ==
    pc = "rendered" =>
        \A k \in 1..Len(model.connections) :
            Dangling(model.connections[k]) =>
                LET twin == layout(NewEngine(job.scale, job.settings),
                                   WithoutConnection(job.network, k))
                    twin_svg == render(twin.model, twin.engine)
                IN  /\ Geometry(twin.model) = Geometry(model)
                    /\ twin_svg.routes =
                           SubSeq(svg.routes, 1, k - 1)
                               \o SubSeq(svg.routes, k + 1, Len(svg.routes))

(***************************************************************************)
(* Routing jobs: one connection between two basic blocks or a block and a  *)
(* boundary port, in either direction, with varying dx1, dx2 and dy hints  *)
(***************************************************************************)
RefF2CNF == <<"F", "2", ".", "C", "N", "F">>

\* source and destination of the routed connection
RouteEnds ==
    {<<RefF1CNF, RefF2REQ>>, <<RefF2REQ, RefF1CNF>>, <<RefF1OUT, RefF2IN1>>,
     <<RefF1CNF, RefF1REQ>>, <<RefF1REQ, RefF1REQ>>, <<RefI1, RefF1REQ>>,
     <<RefF2CNF, RefO1>>}

\* hints in canvas units; 488 canvas units at scale 1/4 span the 122 pixels
\* between the right edge of F1 and the left edge of F2
HintsDx1 == {0, 50, 488, 2000, -100}
HintsDx2 == {0, 1, 100}
HintsDy == {0, 100, -200}

RouteConnections ==
    {Connection(e[1], e[2], dx1, dx2, dy) :
         e \in RouteEnds, dx1 \in HintsDx1, dx2 \in HintsDx2, dy \in HintsDy}

\* F2 to the right of F1: level with it, lower by less than a pixel (by 0.05
\* at scale 1/20, within the tolerance of _simplify_points), or one row band
\* lower
RouteNetworks ==
    {NetworkModel(<<Instance(1, 0, 0, BasicShape), Instance(2, 1200, y, BasicShape)>>,
                  <<c>>, <<PortI1, PortO1>>) :
         y \in {0, 1, 100}, c \in RouteConnections}

\* the router's own default scale 0.05 is among the explicit scales
RouteScales == {None, Rat(1, 4), Rat(1, 20)}

RouteJobs ==
    {[scale |-> sc, settings |-> BlockSizeSettings, network |-> net] :
         sc \in RouteScales, net \in RouteNetworks}

InitRoute ==
    /\ job \in RouteJobs
    /\ engine = NewEngine(job.scale, job.settings)
    /\ model = job.network
    /\ svg = None
    /\ pc = "parsed"
    /\ label = IdleLabel

SpecRoute == InitRoute /\ [][Next]_vars

(***************************************************************************)
(* Properties of routing                                                   *)
(***************************************************************************)
\* the coordinate an endpoint reference resolves to in the laid-out model
Resolved(ref) ==
    _resolve_endpoint(ref, DictByName(model.instances),
                      DictByName(model.interface_ports))

ConnIdx == 1..Len(model.connections)
BothResolve(k) ==
    /\ Resolved(model.connections[k].source) # None
    /\ Resolved(model.connections[k].destination) # None

\* C11: for every connection whose two endpoints resolve, the waypoint list
\* route returns starts exactly at the source's resolved coordinate and ends
\* exactly at the destination's resolved coordinate.
C11_RouteEndsAtEndpoints ==
    pc = "rendered" =>
        \A k \in ConnIdx :
            BothResolve(k) =>
                /\ svg.routes[k] # <<>>
                /\ svg.routes[k][1] = Resolved(model.connections[k].source)
                /\ svg.routes[k][Len(svg.routes[k])] =
                       Resolved(model.connections[k].destination)

(***************************************************************************)
(* Bevelling of a waypoint list (NetworkSVGRenderer._render_connection)    *)
(***************************************************************************)
\* the square root of a rational whose numerator and denominator are perfect
\* squares; the polylines bevelled here have segments of rational length
ISqrt(n) == CHOOSE r \in 0..n : r * r = n
QSqrt(a) == Rat(ISqrt(a[1]), ISqrt(a[2]))

\* the corner (cx, cy) between (px, py) and (nx, ny): two bevel points, or the
\* corner itself when a segment is too short or the direction does not change
BevelCornerAlways(p, c, n, bevel_radius) ==
    LET in_dx == QSub(c[1], p[1])
        in_dy == QSub(c[2], p[2])
        in_len == QSqrt(QAdd(QMul(in_dx, in_dx), QMul(in_dy, in_dy)))
        out_dx == QSub(n[1], c[1])
        out_dy == QSub(n[2], c[2])
        out_len == QSqrt(QAdd(QMul(out_dx, out_dx), QMul(out_dy, out_dy)))
        r == QMin(bevel_radius, QMin(QMul(in_len, Rat(4, 10)), QMul(out_len, Rat(4, 10))))
    IN  IF QLt(Q(0), in_len) /\ QLt(Q(0), out_len)
        THEN <<<<QSub(c[1], QMul(QDiv(in_dx, in_len), r)),
                 QSub(c[2], QMul(QDiv(in_dy, in_len), r))>>,
               <<QAdd(c[1], QMul(QDiv(out_dx, out_len), r)),
                 QAdd(c[2], QMul(QDiv(out_dy, out_len), r))>>>>
        ELSE <<c>>

BevelCorner(p, c, n, bevel_radius) ==
    LET in_dx == QSub(c[1], p[1])
        in_dy == QSub(c[2], p[2])
        in_len == QSqrt(QAdd(QMul(in_dx, in_dx), QMul(in_dy, in_dy)))
        out_dx == QSub(n[1], c[1])
        out_dy == QSub(n[2], c[2])
        out_len == QSqrt(QAdd(QMul(out_dx, out_dx), QMul(out_dy, out_dy)))
        r == IF QLt(Q(0), in_len) /\ QLt(Q(0), out_len)
             THEN QMin(bevel_radius,
                       QMin(QMul(in_len, Rat(4, 10)), QMul(out_len, Rat(4, 10))))
             ELSE Q(0)
        cross == QSub(QMul(in_dx, out_dy), QMul(in_dy, out_dx))
    IN  IF QLt(Rat(1, 2), r) /\ QLt(Rat(1, 100), QAbs(cross))
        THEN <<<<QSub(c[1], QMul(QDiv(in_dx, in_len), r)),
                 QSub(c[2], QMul(QDiv(in_dy, in_len), r))>>,
               <<QAdd(c[1], QMul(QDiv(out_dx, out_len), r)),
                 QAdd(c[2], QMul(QDiv(out_dy, out_len), r))>>>>
        ELSE <<c>>

\* the loop of _bevel_waypoints over the inner points i .. len - 2
RECURSIVE BevelFrom(_, _, _)
BevelFrom(waypoints, i, bevel_radius) ==
    IF i > Len(waypoints) - 1 THEN <<waypoints[Len(waypoints)]>>
    ELSE BevelCorner(waypoints[i - 1], waypoints[i], waypoints[i + 1], bevel_radius)
             \o BevelFrom(waypoints, i + 1, bevel_radius)

\* NetworkSVGRenderer._bevel_waypoints
_bevel_waypoints(waypoints, bevel_radius) ==
    IF Len(waypoints) <= 2 THEN waypoints
    ELSE <<waypoints[1]>> \o BevelFrom(waypoints, 2, bevel_radius)

DEFAULT_BEVEL_RADIUS == 5

\* segment directions of integer length 1 or 5, and how often they are repeated
BevelDirections == {<<1, 0>>, <<0, 1>>, <<-1, 0>>, <<0, -1>>, <<3, 4>>, <<-4, 3>>}
BevelRepeats == {1, 2, 10}
BevelCorners == {<<0, 0>>, <<7, 3>>}

\* the 3-point polylines p, c, n with c - p = k1 * d1 and n - c = k2 * d2
BevelPolylines ==
    {<<<<Q(c[1] - k1 * d1[1]), Q(c[2] - k1 * d1[2])>>,
       <<Q(c[1]), Q(c[2])>>,
       <<Q(c[1] + k2 * d2[1]), Q(c[2] + k2 * d2[2])>>>> :
         c \in BevelCorners, d1 \in BevelDirections, d2 \in BevelDirections,
         k1 \in BevelRepeats, k2 \in BevelRepeats}

\* the renderer holds the waypoints of one routed connection
InitBevel ==
    /\ job = IdleJob
    /\ engine = NewEngine(job.scale, job.settings)
    /\ model = job.network
    /\ pc = "routed"
    /\ label = IdleLabel
    /\ \E w \in BevelPolylines : svg = [waypoints |-> w, beveled |-> <<>>]

\* beveled = self._bevel_waypoints(waypoints)
Bevel ==
    /\ pc = "routed"
    /\ svg' = [svg EXCEPT
                  !.beveled = _bevel_waypoints(svg.waypoints, Q(DEFAULT_BEVEL_RADIUS))]
    /\ pc' = "beveled"
    /\ UNCHANGED <<engine, model, job, label>>

NextBevel == Bevel

SpecBevel == InitBevel /\ [][NextBevel]_vars

\* vectors between waypoints
Vec(a, b) == <<QSub(b[1], a[1]), QSub(b[2], a[2])>>
Cross(u, v) == QSub(QMul(u[1], v[2]), QMul(u[2], v[1]))
Dot(u, v) == QAdd(QMul(u[1], v[1]), QMul(u[2], v[2]))
SameDirection(u, v) == Cross(u, v) = Q(0) /\ QLt(Q(0), Dot(u, v))
\* squared length, to compare lengths without a root
Len2(u) == Dot(u, u)

TrueCorner(w) == Len(w) = 3 /\ Cross(Vec(w[1], w[2]), Vec(w[2], w[3])) # Q(0)

\* a corner the renderer takes for a change of direction
SharpCorner(w) ==
    Len(w) = 3 /\ QLt(Rat(1, 100), QAbs(Cross(Vec(w[1], w[2]), Vec(w[2], w[3]))))

LongSegments(w) ==
    /\ QLt(Rat(25, 16), Len2(Vec(w[1], w[2])))
    /\ QLt(Rat(25, 16), Len2(Vec(w[2], w[3])))

EmptyNetwork == model.instances = <<>> /\ model.interface_ports = <<>>

\* C13: laying out a network with no instances and no boundary ports
\* completes, leaves the sidebar, header and border rectangles unset, and
\* get_diagram_bounds then returns the fallback canvas (0, 0, 100, 100).
C13_EmptyNetworkFallback ==
    (LaidOut /\ EmptyNetwork) =>
        /\ model.input_sidebar_rect = None
        /\ model.output_sidebar_rect = None
        /\ model.header_rect = None
        /\ model.outer_border_rect = None
        /\ get_diagram_bounds(model) = <<Q(0), Q(0), Q(100), Q(100)>>
        /\ pc = "rendered" =>
               svg.view_box = <<Q(-7), Q(-7), Q(114), Q(114)>>

C13_Witness ==
    /\ pc = "rendered"
    /\ EmptyNetwork
    /\ model.connections # <<>>
    /\ svg.view_box = <<Q(-7), Q(-7), Q(114), Q(114)>>

\* C14: calling layout again on the same engine and the same network leaves
\* every computed field (block sizes, render positions, port positions,
\* resolved scale, sidebars, boundary-port positions, header, border) as the
\* first call left it.
C14_LayoutIdempotent ==
    [][(pc # "parsed" /\ Layout) => (model' = model /\ engine' = engine)]_vars

\* a laid-out network with both sidebars whose scale was resolved above the
\* floor, and which a further layout call maps to itself
C14_Witness ==
    /\ LaidOut
    /\ job.scale = None
    /\ QLt(DEFAULT_SCALE, engine.SCALE)
    /\ model.input_sidebar_rect # None /\ model.output_sidebar_rect # None
    /\ \E i \in InstIdx : DOMAIN Insts[i].port_positions # {}
    /\ layout(engine, model) = [engine |-> engine, model |-> model]

(***************************************************************************)
(* One engine laying out several networks, one after the other             *)
(***************************************************************************)
BatchNetworks ==
    UNION {{NetworkModel(insts, PlacementConnections, <<PortI1, PortO1>>) :
                insts \in InstanceLists(n, DesignX, DesignY, {BasicShape})} :
           n \in 1..MaxInstances}

InitBatch ==
    /\ \E net \in BatchNetworks :
          job = [scale |-> None, settings |-> BlockSizeSettings, network |-> net]
    /\ engine = NewEngine(job.scale, job.settings)
    /\ model = job.network
    /\ svg = None
    /\ pc = "parsed"
    /\ label = IdleLabel

\* the caller hands the engine it already used the next parsed network
NextNetwork ==
    /\ pc # "parsed"
    /\ \E net \in BatchNetworks :
          /\ job' = [job EXCEPT !.network = net]
          /\ model' = net
    /\ svg' = None
    /\ pc' = "parsed"
    /\ UNCHANGED <<engine, label>>

NextBatch == Layout \/ Render \/ NextNetwork

SpecBatch == InitBatch /\ [][NextBatch]_vars

\* C15: what layout computes for a network depends only on the network and
\* the configuration: an engine created without an explicit scale gives the
\* scale and geometry a fresh engine gives, whatever it laid out before.
C15_LayoutIndependentOfHistory ==
    LaidOut =>
        LET fresh == layout(NewEngine(None, job.settings), job.network)
        IN  /\ engine.SCALE = fresh.engine.SCALE
            /\ model = fresh.model

(***************************************************************************)
(* Properties of section heights                                           *)
(***************************************************************************)
\* C16 as stated: the event and the data section heights are
\* rows x 16 plus a pad of half a row, 8.
C16_HalfRowPad ==
    LaidOut =>
        \A i \in InstIdx :
            /\ Insts[i].event_section_height =
                   Q(16 * RowsWanted(Len(Insts[i].event_inputs),
                                     Len(Insts[i].event_outputs), 1) + 8)
            /\ Insts[i].data_section_height =
                   Q(16 * RowsWanted(Len(Insts[i].data_inputs),
                                     Len(Insts[i].data_outputs), 1) + 8)

\* C16 amended: the event and the data section heights are rows x 16 plus a
\* fixed pad of half a row less 4, that is 4 pixels.
C16_PadOfFour ==
    LaidOut =>
        \A i \in InstIdx :
            /\ Insts[i].event_section_height =
                   Q(16 * RowsWanted(Len(Insts[i].event_inputs),
                                     Len(Insts[i].event_outputs), 1) + 4)
            /\ Insts[i].data_section_height =
                   Q(16 * RowsWanted(Len(Insts[i].data_inputs),
                                     Len(Insts[i].data_outputs), 1) + 4)

C16_Witness ==
    /\ LaidOut
    /\ \E i \in InstIdx :
          /\ Len(Insts[i].event_inputs) = 2 /\ Len(Insts[i].event_outputs) = 1
          /\ Insts[i].event_section_height = Q(36)
          /\ Len(Insts[i].data_outputs) = 2
          /\ Insts[i].data_section_height = Q(36)

(***************************************************************************)
(* Properties of the simplified waypoint lists                             *)
(***************************************************************************)
\* three points on one vertical or on one horizontal line
OnOneAxisLine(a, b, c) ==
    \/ a[1] = b[1] /\ b[1] = c[1]
    \/ a[2] = b[2] /\ b[2] = c[2]

Minimal(w) ==
    /\ \A i \in 1..(Len(w) - 1) : w[i] # w[i + 1]
    /\ \A i \in 1..(Len(w) - 2) : ~OnOneAxisLine(w[i], w[i + 1], w[i + 2])

\* C17: the waypoint list route returns has no two consecutive equal points
\* and no three consecutive points on one horizontal or one vertical line.
C17_RouteMinimal ==
    pc = "rendered" => \A k \in ConnIdx : Minimal(svg.routes[k])

\* the waypoints route generates for connection k before it simplifies them
IsBoundaryRef(ref) ==
    /\ DotsOf(ref) = {}
    /\ \E j \in 1..Len(model.interface_ports) : model.interface_ports[j].name = ref

RawRoute(k) ==
    LET c == model.connections[k]
        s == Resolved(c.source)
        d == Resolved(c.destination)
        dx1 == QMul(Q(c.dx1), engine.SCALE)
        dx2 == QMul(Q(c.dx2), engine.SCALE)
        dy == QMul(Q(c.dy), engine.SCALE)
    IN  IF IsBoundaryRef(c.source) # IsBoundaryRef(c.destination)
        THEN RouteInterface(s[1], s[2], d[1], d[2], dx1)
        ELSE RouteInstances(s[1], s[2], d[1], d[2], dx1, dx2, dy)

\* the segments of the polyline through the waypoints w; a single waypoint
\* is a polyline of one point
Segments(w) ==
    IF Len(w) = 1 THEN {<<w[1], w[1]>>}
    ELSE {<<w[i], w[i + 1]>> : i \in 1..(Len(w) - 1)}

\* where the point p of the line through segment s lies on it: 0 at s[1],
\* 1 at s[2]
Param(s, p) ==
    IF s[1][1] # s[2][1]
    THEN QDiv(QSub(p[1], s[1][1]), QSub(s[2][1], s[1][1]))
    ELSE QDiv(QSub(p[2], s[1][2]), QSub(s[2][2], s[1][2]))

OnLineOf(s, p) == Cross(Vec(s[1], s[2]), Vec(s[1], p)) = Q(0)

\* point p lies on segment s
OnSegment(p, s) ==
    IF s[1] = s[2] THEN p = s[1]
    ELSE /\ OnLineOf(s, p)
         /\ QLe(Q(0), Param(s, p)) /\ QLe(Param(s, p), Q(1))

\* the part of segment s (from parameter 0 at s[1] to 1 at s[2]) that the
\* collinear segment t covers, as an interval of the parameter; None if t is
\* not on the line of s or misses s
CoveredInterval(s, t) ==
    IF OnLineOf(s, t[1]) /\ OnLineOf(s, t[2])
    THEN LET tc == Param(s, t[1])
             td == Param(s, t[2])
             lo == QMax(Q(0), QMin(tc, td))
             hi == QMin(Q(1), QMax(tc, td))
         IN  IF QLe(lo, hi) THEN <<lo, hi>> ELSE None
    ELSE None

\* every point of segment s lies on one of the segments of T
SegmentCovered(s, T) ==
    IF s[1] = s[2] THEN \E t \in T : OnSegment(s[1], t)
    ELSE LET I == {CoveredInterval(s, t) : t \in T} \ {None}
         IN  /\ \E iv \in I : iv[1] = Q(0)
             /\ \A iv \in I :
                    QLt(iv[2], Q(1)) =>
                        \E jv \in I : QLe(jv[1], iv[2]) /\ QLt(iv[2], jv[2])

\* the polylines through v and through w cover the same set of points
SameShape(v, w) ==
    /\ \A s \in Segments(v) : SegmentCovered(s, Segments(w))
    /\ \A s \in Segments(w) : SegmentCovered(s, Segments(v))

\* C18: for every waypoint list the router generates, the polyline through
\* the simplified waypoints covers the same set of points as the polyline
\* through the raw waypoints, also when a segment doubles back.
C18_SimplifyKeepsShape ==
    pc = "rendered" =>
        \A k \in ConnIdx :
            BothResolve(k) => SameShape(RawRoute(k), svg.routes[k])

(***************************************************************************)
(* Properties of the routes between two instance ports                     *)
(***************************************************************************)
\* connection k joins two instance ports that both resolve
InstToInst(k) ==
    /\ BothResolve(k)
    /\ Cardinality(DotsOf(model.connections[k].source)) = 1
    /\ Cardinality(DotsOf(model.connections[k].destination)) = 1

Src(k) == Resolved(model.connections[k].source)
Dst(k) == Resolved(model.connections[k].destination)
ScaledDx1(k) == QMul(Q(model.connections[k].dx1), engine.SCALE)
ScaledDx2(k) == QMul(Q(model.connections[k].dx2), engine.SCALE)
ScaledDy(k) == QMul(Q(model.connections[k].dy), engine.SCALE)
Apart(a, b) == QLt(Rat(1, 10), QAbs(QSub(a, b)))

\* the column of the vertical bend: source x + dx1 * scale, pushed out to 30
\* pixels from the source on the side of dx1's sign
BendX(k) ==
    IF QLe(Q(30), QAbs(ScaledDx1(k))) THEN QAdd(Src(k)[1], ScaledDx1(k))
    ELSE IF QLt(Q(0), ScaledDx1(k)) THEN QAdd(Src(k)[1], Q(30))
    ELSE QSub(Src(k)[1], Q(30))

\* C19 as stated: an instance-to-instance connection with dy = 0 is routed
\* with 2 or 4 waypoints; when dx1 is nonzero and the endpoints differ in y,
\* the bend lies at source x + dx1 * scale, at least 30 pixels from the
\* source.
C19_TwoOrFourPoints ==
    pc = "rendered" =>
        \A k \in ConnIdx :
            (InstToInst(k) /\ model.connections[k].dy = 0) =>
                /\ Len(svg.routes[k]) \in {2, 4}
                /\ (model.connections[k].dx1 # 0 /\ Src(k)[2] # Dst(k)[2]) =>
                       svg.routes[k][2] = <<BendX(k), Src(k)[2]>>

\* C19 amended: such a connection is routed with at most 4 waypoints: 4 in
\* general, 3 only when dx1 is nonzero and the bend column is within 0.1 of
\* the destination x, 1 only when dx1 is zero and the endpoints are within
\* 0.1 of each other; when dx1 is nonzero and the endpoints differ in y by
\* more than 0.1, the second waypoint is the bend (bend x, source y).
C19_AtMostFourPoints ==
    pc = "rendered" =>
        \A k \in ConnIdx :
            (InstToInst(k) /\ model.connections[k].dy = 0) =>
                /\ Len(svg.routes[k]) \in 1..4
                /\ Len(svg.routes[k]) = 3 =>
                       /\ model.connections[k].dx1 # 0
                       /\ ~Apart(BendX(k), Dst(k)[1])
                /\ Len(svg.routes[k]) = 1 =>
                       /\ model.connections[k].dx1 = 0
                       /\ ~Apart(Src(k)[1], Dst(k)[1])
                       /\ ~Apart(Src(k)[2], Dst(k)[2])
                /\ (model.connections[k].dx1 # 0 /\ Apart(Src(k)[2], Dst(k)[2])) =>
                       /\ Len(svg.routes[k]) >= 3
                       /\ svg.routes[k][2] = <<BendX(k), Src(k)[2]>>
                       /\ svg.routes[k][3][1] = BendX(k)

\* a three-point route: the bend column is the destination's column
C19_Witness ==
    /\ pc = "rendered"
    /\ InstToInst(1) /\ model.connections[1].dy = 0
    /\ model.connections[1].dx1 # 0
    /\ Apart(Src(1)[2], Dst(1)[2])
    /\ Len(svg.routes[1]) = 3
    /\ svg.routes[1][2] = <<Dst(1)[1], Src(1)[2]>>

\* the waypoints of the detour through the crossover row source y + dy * scale:
\* six when dx2 is nonzero, five when it is zero
DetourPath(k) ==
    LET s == Src(k)
        d == Dst(k)
        seg1_x == QAdd(s[1], ScaledDx1(k))
        seg_y == QAdd(s[2], ScaledDy(k))
        seg2_x == QSub(d[1], ScaledDx2(k))
    IN  IF model.connections[k].dx2 # 0
        THEN <<s, <<seg1_x, s[2]>>, <<seg1_x, seg_y>>,
               <<seg2_x, seg_y>>, <<seg2_x, d[2]>>, d>>
        ELSE <<s, <<seg1_x, s[2]>>, <<seg1_x, seg_y>>, <<d[1], seg_y>>, d>>

\* no waypoint of w is within 0.1 of its predecessor in both coordinates, and
\* no waypoint is within 0.1 of both its neighbours in one coordinate
WellSeparated(w) ==
    /\ \A i \in 1..(Len(w) - 1) :
           Apart(w[i][1], w[i + 1][1]) \/ Apart(w[i][2], w[i + 1][2])
    /\ \A i \in 1..(Len(w) - 2) : \A a \in {1, 2} :
           \/ QLe(Rat(1, 10), QAbs(QSub(w[i][a], w[i + 1][a])))
           \/ QLe(Rat(1, 10), QAbs(QSub(w[i + 1][a], w[i + 2][a])))

\* C20 as stated: an instance-to-instance connection with dy # 0 is routed
\* with the six waypoints of the detour when dx2 is nonzero and with its five
\* waypoints when dx2 is zero.
C20_SixOrFivePoints ==
    pc = "rendered" =>
        \A k \in ConnIdx :
            (InstToInst(k) /\ model.connections[k].dy # 0) =>
                svg.routes[k] = DetourPath(k)

\* C20 amended: such a connection is routed with at most six waypoints when
\* dx2 is nonzero and at most five when it is zero, starting at the source;
\* the route is the whole detour whenever the detour's waypoints are well
\* separated, and it is shorter than the detour otherwise.
C20_DetourWhenSeparated ==
    pc = "rendered" =>
        \A k \in ConnIdx :
            (InstToInst(k) /\ model.connections[k].dy # 0) =>
                /\ Len(svg.routes[k]) \in 1..Len(DetourPath(k))
                /\ svg.routes[k][1] = Src(k)
                /\ WellSeparated(DetourPath(k)) <=> svg.routes[k] = DetourPath(k)

\* a six-point detour and its second column left of the destination
C20_Witness ==
    /\ pc = "rendered"
    /\ InstToInst(1)
    /\ model.connections[1].dy # 0 /\ model.connections[1].dx2 # 0
    /\ WellSeparated(DetourPath(1))
    /\ Len(svg.routes[1]) = 6
    /\ QLt(svg.routes[1][5][1], Dst(1)[1])

\* a five-point detour: the crossover row runs to the destination's column
C20_WitnessFive ==
    /\ pc = "rendered"
    /\ InstToInst(1)
    /\ model.connections[1].dy # 0 /\ model.connections[1].dx2 = 0
    /\ Len(svg.routes[1]) = 5
    /\ svg.routes[1][4] = <<Dst(1)[1], QAdd(Src(1)[2], ScaledDy(1))>>

(***************************************************************************)
(* Shifted jobs: the same blocks drawn elsewhere on the design canvas      *)
(***************************************************************************)
\* the network with (a, b) added to the design coordinates of every instance
Shifted(net, a, b) ==
    [net EXCEPT !.instances =
        [i \in 1..Len(net.instances) |->
            [net.instances[i] EXCEPT !.x = @ + a, !.y = @ + b]]]

ShiftOffsets == {<<0, 0>>, <<-300, 50>>, <<1000, 2000>>}

ShiftNetworks ==
    UNION {{NetworkModel(insts, PlacementConnections, <<PortI1, PortO1>>) :
                insts \in InstanceLists(n, DesignX, DesignY, {BasicShape})} :
           n \in 1..MaxInstances}

ShiftJobs ==
    {[scale |-> sc, settings |-> BlockSizeSettings,
      network |-> Shifted(net, o[1], o[2])] :
         sc \in Scales, net \in ShiftNetworks, o \in {<<0, 0>>, <<-300, 50>>}}

InitShift ==
    /\ job \in ShiftJobs
    /\ engine = NewEngine(job.scale, job.settings)
    /\ model = job.network
    /\ svg = None
    /\ pc = "parsed"
    /\ label = IdleLabel

SpecShift == InitShift /\ [][Next]_vars

\* C21: after layout the smallest render_x and the smallest render_y over the
\* instances are both the margin 60, and the same job on the network shifted
\* by any offset (a, b) gives the same render positions, port positions,
\* sidebars, boundary ports, header and border.
C21_AnchoredAndShiftInvariant ==
    (LaidOut /\ Insts # <<>>) =>
        /\ QMinSet({Insts[i].render_x : i \in InstIdx}) = Q(MARGIN)
        /\ QMinSet({Insts[i].render_y : i \in InstIdx}) = Q(MARGIN)
        /\ \A o \in ShiftOffsets :
               LET twin == layout(NewEngine(job.scale, job.settings),
                                  Shifted(job.network, o[1], o[2]))
               IN  Geometry(Shifted(twin.model, -o[1], -o[2])) = Geometry(model)

\* two laid-out blocks, none of them at the origin of the design canvas, with
\* both sidebars
C21_Witness ==
    /\ LaidOut
    /\ Len(Insts) = 2
    /\ \A i \in InstIdx : Insts[i].x # 0 /\ Insts[i].y # 0
    /\ Insts[1].render_x # Insts[2].render_x
    /\ model.input_sidebar_rect # None /\ model.output_sidebar_rect # None
    /\ model.canvas_origin_x # Q(MARGIN)

(***************************************************************************)
(* Port jobs: one instance whose port names are unique within each list    *)
(* and on each side, an in-out variable being declared on both sides       *)
(***************************************************************************)
PortShapes ==
    {[type_name |-> <<"E">>, ei |-> ei, eo |-> eo, di |-> di, do |-> do,
      plugs |-> pl, sockets |-> so] :
         ei \in {<<>>, <<<<"A">>>>, <<<<"A">>, <<"B">>>>},
         eo \in {<<>>, <<<<"C">>>>, <<<<"C">>, <<"A">>>>},
         di \in {<<>>, <<<<"D">>>>, <<<<"D">>, <<"E">>>>},
         do \in {<<>>, <<<<"D">>>>, <<<<"F">>, <<"G">>>>},
         so \in {<<>>, <<<<"S">>>>},
         pl \in {<<>>, <<<<"P">>>>, <<<<"P">>, <<"Q">>>>}}

PortJobs ==
    {[scale |-> None, settings |-> BlockSizeSettings,
      network |-> NetworkModel(<<Instance(1, 0, 0, sh)>>, <<>>, <<>>)] :
         sh \in PortShapes}

InitPorts ==
    /\ job \in PortJobs
    /\ engine = NewEngine(job.scale, job.settings)
    /\ model = job.network
    /\ svg = None
    /\ pc = "parsed"
    /\ label = IdleLabel

SpecPorts == InitPorts /\ [][Next]_vars

\* the recorded positions of the ports of one list, in declaration order
Recorded(inst, ports) ==
    [j \in 1..Len(ports) |-> inst.port_positions[ports[j]]]

\* the recorded positions of a list lie on the edge at x, 16 pixels apart from
\* top to bottom, within the block's vertical extent
OnEdge(inst, ports, x) ==
    LET pos == Recorded(inst, ports)
    IN  /\ \A j \in 1..Len(ports) :
               /\ pos[j][1] = x
               /\ QLe(inst.render_y, pos[j][2])
               /\ QLe(pos[j][2], QAdd(inst.render_y, inst.block_height))
        /\ \A j \in 1..(Len(ports) - 1) :
               pos[j + 1][2] = QAdd(pos[j][2], Q(PORT_ROW_HEIGHT))

\* every recorded position of the list upper is above every one of lower
Above(inst, upper, lower) ==
    \A j \in 1..Len(upper) : \A k \in 1..Len(lower) :
        QLt(Recorded(inst, upper)[j][2], Recorded(inst, lower)[k][2])

\* C22: after layout the recorded positions of event inputs, data inputs and
\* sockets are on the left edge of the block and those of event outputs, data
\* outputs and plugs on its right edge, 16 pixels apart within a list, inside
\* the block's vertical extent, event ports above data ports above adapter
\* ports.
C22_PortsOnEdges ==
    LaidOut =>
        \A i \in InstIdx :
            LET inst == Insts[i]
                left == inst.render_x
                right == QAdd(inst.render_x, inst.block_width)
                events == inst.event_inputs \o inst.event_outputs
                data == inst.data_inputs \o inst.data_outputs
                adapters == inst.sockets \o inst.plugs
            IN  /\ OnEdge(inst, inst.event_inputs, left)
                /\ OnEdge(inst, inst.data_inputs, left)
                /\ OnEdge(inst, inst.sockets, left)
                /\ OnEdge(inst, inst.event_outputs, right)
                /\ OnEdge(inst, inst.data_outputs, right)
                /\ OnEdge(inst, inst.plugs, right)
                /\ Above(inst, events, data)
                /\ Above(inst, data, adapters)

(***************************************************************************)
(* Boundary jobs: two basic blocks wired to the boundary ports of the      *)
(* network by connections with varying dx1 hints                           *)
(***************************************************************************)
BoundaryCatalogue ==
    {Connection(RefI1, RefF1REQ, 0, 0, 0),
     Connection(RefI1, RefF1REQ, 200, 0, 0),
     Connection(RefI1, RefF1REQ, -100, 0, 0),
     Connection(RefI1, RefF2IN1, 500, 0, 0),
     Connection(RefI1, RefNoInstance, 800, 0, 0),
     Connection(RefF1CNF, RefO1, 0, 0, 0),
     Connection(RefF1CNF, RefO1, -100, 0, 0),
     Connection(RefF2CNF, RefO1, 300, 0, 0),
     Connection(RefF1OUT, RefO1, 6000, 0, 0)}

BoundaryNetworks ==
    {NetworkModel(<<Instance(1, 0, 0, BasicShape), Instance(2, 1200, y, BasicShape)>>,
                  conns, <<PortI1, PortO1>>) :
         y \in {0, 100},
         conns \in UNION {[1..n -> BoundaryCatalogue] : n \in 1..MaxConnections}}

BoundaryJobs ==
    {[scale |-> sc, settings |-> BlockSizeSettings, network |-> net] :
         sc \in Scales, net \in BoundaryNetworks}

InitBoundary ==
    /\ job \in BoundaryJobs
    /\ engine = NewEngine(job.scale, job.settings)
    /\ model = job.network
    /\ svg = None
    /\ pc = "parsed"
    /\ label = IdleLabel

SpecBoundary == InitBoundary /\ [][Next]_vars

\* the named boundary port of the given direction exists
IsPort(ref, direction) ==
    \E j \in 1..Len(model.interface_ports) :
        /\ model.interface_ports[j].name = ref
        /\ model.interface_ports[j].direction = direction

\* the connections leaving an input boundary port
FromInput == {k \in ConnIdx : IsPort(model.connections[k].source, "input")}

\* connection k runs from an input boundary port to a resolved instance port
InputToInst(k) ==
    /\ k \in FromInput
    /\ BothResolve(k)
    /\ Cardinality(DotsOf(model.connections[k].destination)) = 1

InstMinX == QMinSet({Insts[i].render_x : i \in InstIdx})
InputSidebarRight == QAdd(model.input_sidebar_rect[1], model.input_sidebar_rect[3])

\* the bend of a route from an input port is left of the destination port,
\* and it is the second waypoint of a route with a bend
BendLeftOfDestination ==
    pc = "rendered" =>
        \A k \in ConnIdx :
            (InputToInst(k) /\ model.connections[k].dx1 # 0) =>
                LET bend == QAdd(Src(k)[1], ScaledDx1(k))
                IN  /\ Src(k)[1] = InputSidebarRight
                    /\ QLt(bend, Dst(k)[1])
                    /\ Len(svg.routes[k]) >= 3 => svg.routes[k][2][1] = bend

\* C23 as stated: the right edge of the input sidebar is the leftmost
\* instance x, minus the largest dx1 * scale of the connections leaving an
\* input boundary port (0 when there are none), minus 58; the bend of every
\* route from an input port to an instance port is left of the destination.
C23_SidebarLeftOfBends ==
    (LaidOut /\ model.input_sidebar_rect # None) =>
        /\ InputSidebarRight =
               QSub(QSub(InstMinX,
                         IF FromInput = {} THEN Q(0)
                         ELSE QMaxSet({ScaledDx1(k) : k \in FromInput})),
                    Q(58))
        /\ BendLeftOfDestination

\* C23 amended: the subtracted term is the largest positive dx1 * scale of
\* those connections, 0 when none of them has a positive dx1.
C23_SidebarLeftOfPositiveBends ==
    (LaidOut /\ model.input_sidebar_rect # None) =>
        /\ InputSidebarRight =
               QSub(QSub(InstMinX,
                         QMaxSet({Q(0)} \cup {ScaledDx1(k) : k \in FromInput})),
                    Q(58))
        /\ BendLeftOfDestination

\* two input connections with different positive hints, both routed with a bend
C23_Witness ==
    /\ pc = "rendered"
    /\ Len(model.connections) = 2
    /\ InputToInst(1) /\ InputToInst(2)
    /\ 0 < model.connections[1].dx1
    /\ model.connections[1].dx1 < model.connections[2].dx1
    /\ Len(svg.routes[1]) = 4 /\ Len(svg.routes[2]) = 4
    /\ InputSidebarRight = QSub(QSub(InstMinX, ScaledDx1(2)), Q(58))

\* connection k runs from a resolved instance port to an output boundary port
InstToOutput(k) ==
    /\ IsPort(model.connections[k].destination, "output")
    /\ BothResolve(k)
    /\ Cardinality(DotsOf(model.connections[k].source)) = 1

InstMaxX == QMaxSet({QAdd(Insts[i].render_x, Insts[i].block_width) : i \in InstIdx})
OutputSidebarLeft == model.output_sidebar_rect[1]

\* C24: the left edge of the output sidebar is at least 58 pixels right of
\* the rightmost block edge, and no waypoint of a route from a resolved
\* instance port to an output boundary port lies right of it.
C24_OutputSidebarBeyondBends ==
    (LaidOut /\ model.output_sidebar_rect # None) =>
        /\ Insts # <<>> => QLe(QAdd(InstMaxX, Q(58)), OutputSidebarLeft)
        /\ pc = "rendered" =>
               \A k \in ConnIdx :
                   InstToOutput(k) =>
                       /\ svg.routes[k] # <<>>
                       /\ \A n \in 1..Len(svg.routes[k]) :
                              QLe(svg.routes[k][n][1], OutputSidebarLeft)

\* a route to the output sidebar whose bend lies right of every block: the
\* sidebar is 58 pixels beyond the bend
C24_Witness ==
    /\ pc = "rendered"
    /\ model.output_sidebar_rect # None
    /\ InstToOutput(1)
    /\ Len(svg.routes[1]) = 4
    /\ QLt(InstMaxX, svg.routes[1][2][1])
    /\ OutputSidebarLeft = QAdd(svg.routes[1][2][1], Q(58))

(***************************************************************************)
(* Frame jobs: up to MaxInstances basic blocks inside a frame whose        *)
(* boundary ports vary in number and in the length of their names          *)
(***************************************************************************)
\* the boundary-port names of one direction: none, one, names shorter and
\* longer than the limits of the two settings files, nine short names
FrameNames(prefix) ==
    {<<>>, <<<<prefix, "1">>>>, <<<<prefix>> \o Xs(3)>>,
     <<<<prefix, "1">>, <<prefix>> \o Xs(8)>>, <<<<prefix>> \o Xs(44)>>,
     [j \in 1..9 |-> <<prefix>> \o Xs(j)]}

\* the boundary ports as parsed: the outputs follow the first input
FramePorts(ins, outs) ==
    LET I == [j \in 1..Len(ins) |-> InterfacePort(ins[j], "input")]
        O == [j \in 1..Len(outs) |-> InterfacePort(outs[j], "output")]
    IN  IF I = <<>> THEN O ELSE <<Head(I)>> \o O \o Tail(I)

FramePortLists ==
    {FramePorts(ins, outs) :
         ins \in FrameNames("I"),
         outs \in {<<>>, <<<<"O", "1">>>>, <<<<"O">> \o Xs(5), <<"O", "1">>>>}}

FrameNetworks ==
    UNION {{NetworkModel(insts, <<>>, ports) :
                insts \in InstanceLists(n, {0, 1200}, {0, 100}, {BasicShape}),
                ports \in FramePortLists} : n \in 0..MaxInstances}

\* a settings file whose minimum bar size exceeds its maximum
WideMinSettings == [TightSettings EXCEPT !.min_interface_bar_size = 7]

FrameJobs ==
    {[scale |-> None, settings |-> st, network |-> net] :
         st \in {BlockSizeSettings, TightSettings, WideMinSettings},
         net \in FrameNetworks}

InitFrame ==
    /\ job \in FrameJobs
    /\ engine = NewEngine(job.scale, job.settings)
    /\ model = job.network
    /\ svg = None
    /\ pc = "parsed"
    /\ label = IdleLabel

SpecFrame == InitFrame /\ [][Next]_vars

\* the sidebars that exist
Sidebars == {model.input_sidebar_rect, model.output_sidebar_rect} \ {None}
Bottom(r) == QAdd(r[2], r[4])

\* C25: after layout the header is 25 pixels high, as wide as the border and
\* at its left and top edge, its bottom edge is not below the top of any
\* block's label strip nor of any sidebar, and every sidebar that exists spans
\* exactly from the header's bottom edge to the border's bottom edge.
C25_HeaderAboveContent ==
    (LaidOut /\ model.header_rect # None) =>
        LET h == model.header_rect
            b == model.outer_border_rect
        IN  /\ h[4] = Q(25)
            /\ h[1] = b[1] /\ h[2] = b[2] /\ h[3] = b[3]
            /\ \A i \in InstIdx :
                   QLe(Bottom(h), QSub(Insts[i].render_y, Q(20)))
            /\ \A r \in Sidebars :
                   /\ r[2] = Bottom(h)
                   /\ Bottom(r) = Bottom(b)

\* a laid-out frame with blocks and both sidebars, the input sidebar holding
\* more port rows than the blocks are high
C25_Witness ==
    /\ LaidOut
    /\ Len(Insts) = 2
    /\ Cardinality(Sidebars) = 2
    /\ Len(PortsOf(model.interface_ports, "input")) = 9
    /\ QLt(QAdd(QMaxSet({QAdd(Insts[i].render_y, Insts[i].block_height) : i \in InstIdx}),
                Q(30)),
           Bottom(model.outer_border_rect))

\* the directions that have a boundary port, the names of their ports, and
\* the width recorded for their sidebar
Directions ==
    {d \in {"input", "output"} : PortsOf(model.interface_ports, d) # <<>>}
SidebarOf(d) ==
    IF d = "input"
    THEN [width |-> model.input_sidebar_width, rect |-> model.input_sidebar_rect]
    ELSE [width |-> model.output_sidebar_width, rect |-> model.output_sidebar_rect]

\* the width of the widest boundary-port label of direction d, truncated to
\* the configured number of characters and marked, plus the allowance
WidestLabel(d) ==
    QAdd(QMaxSet({_measure_text(_truncate_label(n, engine.settings.max_interface_bar_size)) :
                      n \in ToSet(PortsOf(model.interface_ports, d))}),
         Q(10))

\* the width of a label of n characters plus the allowance
BarOf(n) == QAdd(Rat(17 * n, 2), Q(10))

C27_RoutesOrthogonal ==
    pc = "rendered" =>
        \A k \in ConnIdx :
            \A n \in 1..(Len(svg.routes[k]) - 1) :
                \/ svg.routes[k][n][1] = svg.routes[k][n + 1][1]
                \/ svg.routes[k][n][2] = svg.routes[k][n + 1][2]

\* sidebar_top: 38 pixels above the highest label strip, or above the margin
\* when the network has no instance
SidebarTop ==
    IF Insts # <<>>
    THEN QSub(QMinSet({QSub(Insts[i].render_y, Q(20)) : i \in InstIdx}), Q(38))
    ELSE Q(MARGIN - 38)

\* the height of the instance area, label strips included
InstAreaHeight ==
    IF Insts # <<>>
    THEN QSub(QMaxSet({QAdd(Insts[i].render_y, Insts[i].block_height) : i \in InstIdx}),
              QMinSet({QSub(Insts[i].render_y, Q(20)) : i \in InstIdx}))
    ELSE Q(200)

\* the boundary ports of direction d, in declaration order
Boundary(d) ==
    SelectSeq(model.interface_ports, LAMBDA p : p.direction = d)

\* C28: after layout a sidebar is at least as high as the instance area and
\* as one 17-pixel row per boundary port of its direction; these ports are 17
\* pixels apart in declaration order, the first 17 pixels below the initial
\* top of the sidebar, on the right edge of the input sidebar or the left
\* edge of the output sidebar, and within the sidebar's vertical extent.
C28_SidebarHoldsItsPorts ==
    LaidOut =>
        \A d \in Directions :
            LET r == SidebarOf(d).rect
                ports == Boundary(d)
            IN  /\ QLe(InstAreaHeight, r[4])
                /\ QLe(Q(17 * Len(ports)), r[4])
                /\ \A j \in 1..Len(ports) :
                       /\ ports[j].render_y = QAdd(SidebarTop, Q(17 * j))
                       /\ ports[j].render_x =
                              IF d = "input" THEN QAdd(r[1], r[3]) ELSE r[1]
                       /\ QLe(r[2], ports[j].render_y)
                       /\ QLe(ports[j].render_y, Bottom(r))

\* nine input ports, more rows than the instance area is high, around the
\* outputs in the declaration; the last input port is 9 rows below the top
C28_Witness ==
    /\ LaidOut
    /\ Insts # <<>>
    /\ Directions = {"input", "output"}
    /\ Len(Boundary("input")) = 9
    /\ QLt(QAdd(InstAreaHeight, Q(10)), Q(17 * 9))
    /\ model.interface_ports[Len(model.interface_ports)].render_y =
           QAdd(SidebarTop, Q(17 * 9))

\* the pixel gap from the bottom edge of block i to the top edge of block j,
\* and from the right edge of block i to the left edge of block j
GapBelow(i, j) ==
    QSub(Insts[j].render_y, QAdd(Insts[i].render_y, Insts[i].block_height))
GapRightOf(i, j) ==
    QSub(Insts[j].render_x, QAdd(Insts[i].render_x, Insts[i].block_width))

\* C29: with no explicit scale, two instances whose design coordinates differ
\* are classified as stacked or as side by side, and after layout their
\* blocks are at least 60 pixels apart along the x or along the y axis; a
\* pair that is not classified has identical design coordinates.
C29_DistinctPairsSeparated ==
    (LaidOut /\ job.scale = None) =>
        \A i, j \in InstIdx :
            /\ (Insts[i].x # Insts[j].x \/ Insts[i].y # Insts[j].y) =>
                   /\ ~Unclassified(i, j)
                   /\ \/ QLe(Q(60), GapBelow(i, j))
                      \/ QLe(Q(60), GapBelow(j, i))
                      \/ QLe(Q(60), GapRightOf(i, j))
                      \/ QLe(Q(60), GapRightOf(j, i))
            /\ Unclassified(i, j) =>
                   Insts[i].x = Insts[j].x /\ Insts[i].y = Insts[j].y

\* two blocks at different heights that are side by side only: exactly 60
\* pixels apart in x while their vertical extents overlap
C29_Witness ==
    /\ LaidOut /\ job.scale = None
    /\ \E i, j \in InstIdx :
          /\ LeftOf(i, j) /\ ~StackedOver(i, j) /\ ~StackedOver(j, i)
          /\ Insts[i].y # Insts[j].y
          /\ GapRightOf(i, j) = Q(60)
          /\ QLt(GapBelow(i, j), Q(0)) /\ QLt(GapBelow(j, i), Q(0))

\* C30: the bounds get_diagram_bounds reports after layout contain every
\* waypoint of every routed connection, whatever the dx1, dx2 and dy hints.
C30_BoundsContainRoutes ==
    pc = "rendered" =>
        LET b == get_diagram_bounds(model)
        IN  \A k \in ConnIdx :
                \A n \in 1..Len(svg.routes[k]) :
                    /\ QLe(b[1], svg.routes[k][n][1])
                    /\ QLe(svg.routes[k][n][1], b[3])
                    /\ QLe(b[2], svg.routes[k][n][2])
                    /\ QLe(svg.routes[k][n][2], b[4])

====
